---- MODULE Spec2Model ----
(***************************************************************************)
(* Story / engagement / gamification core of storiesandpostsmanagement.    *)
(*                                                                         *)
(* The database tables are the state.  Two specifications share them:      *)
(*   Spec      request handlers run as concurrent processes, one database  *)
(*             statement (one commit) per step;                            *)
(*   SpecLife  the story lifecycle under a clock: every handler runs to    *)
(*             completion in one step, time passes between handlers.       *)
(***************************************************************************)
EXTENDS Integers, Sequences, FiniteSets, TLC

(* ------------------------------ bounds -------------------------------- *)
NProcs == 2
MaxCalls == 3
MaxStories == 2
MaxComments == 2
NUsers == 1
MaxLifeCalls == 3
MaxNow == 17
NActors == 2

(* ------------------------- program constants -------------------------- *)
EDIT_LOCK_HOURS == 24
RESTORE_DAYS == 7
MAX_CAPTION == 120
MIN_DESCRIPTION == 20
MAX_TAGS == 10
MAX_AUTHOR_NAME == 50
MAX_CONTENT == 1000
MAX_CONTENT_LENGTH == 50 * 1024 * 1024

\* One clock tick of the model is twelve hours.
HoursPerTick == 12
TicksPerDay == 24 \div HoursPerTick

VALID_CATEGORIES == {"Life Lessons", "Historical Events", "Family Traditions",
                     "Career Journey", "Hobbies & Skills", "Travel Adventures"}
VALID_PRIVACY_OPTIONS == {"Public", "Friends Only", "Specific Groups"}

Procs == 1..NProcs
Users == 1..NUsers
\* Python's None for a user id, a story id or a comment id.
NoId == 0

Max(a, b) == IF a >= b THEN a ELSE b

\* Optional values: <<>> is None, <<v>> is v.
None == <<>>
Some(v) == <<v>>
IsNone(o) == Len(o) = 0

(* ---------------------- timestamps as ISO strings --------------------- *)
\* An ISO-8601 text is kept by the parts that decide how two such texts
\* compare as strings: the date, the separator character between date and
\* time, the time of day, and whether a seconds part follows the minutes.
\* datetime.isoformat() writes "T" and always writes the seconds.
isoformat(t) ==
    [date |-> t \div TicksPerDay, sep |-> "T", time |-> t % TicksPerDay, secs |-> TRUE]

\* datetime.fromisoformat() accepts any separator character and an absent
\* seconds part.
fromisoformat(s) == s.date * TicksPerDay + s.time

\* The character code of a separator (" " sorts before "T").
SepCode(c) == IF c = " " THEN 32 ELSE 84

\* SQLite's <= on two TEXT values: character by character, a proper prefix
\* sorting first.
TextLeq(a, b) ==
    IF a.date # b.date THEN a.date < b.date
    ELSE IF a.sep # b.sep THEN SepCode(a.sep) < SepCode(b.sep)
    ELSE IF a.time # b.time THEN a.time < b.time
    ELSE (a.secs => b.secs)

(* ------------------------------ strings ------------------------------- *)
\* A text is a sequence of characters.
\* str.strip() takes off whitespace: blanks and line ends.
IsSpace(c) == c \in {" ", "\n"}

RECURSIVE LStrip(_)
LStrip(s) == IF s # <<>> /\ IsSpace(Head(s)) THEN LStrip(Tail(s)) ELSE s

RECURSIVE RStrip(_)
RStrip(s) ==
    IF s # <<>> /\ IsSpace(s[Len(s)]) THEN RStrip(SubSeq(s, 1, Len(s) - 1)) ELSE s

\* str.strip()
Strip(s) == RStrip(LStrip(s))

\* str.lstrip('#'): every leading '#' goes.
RECURSIVE LStripHash(_)
LStripHash(s) == IF s # <<>> /\ Head(s) = "#" THEN LStripHash(Tail(s)) ELSE s

Repeat(c, n) == [i \in 1..n |-> c]

IsTagChar(c) == c \in {"a", "b", "c", "1", "_"}

(* --------------------------- story entity ----------------------------- *)
\* StoryPost.__init__ as StoryService.create_story calls it: the counters
\* start at 0, created_at and updated_at are the construction time.
StoryPost(author, caption, description, category, privacy, tags, groups, scheduled, t) ==
    [author_id |-> author, caption |-> caption, description |-> description,
     category |-> category, privacy |-> privacy, tags |-> tags,
     allowed_groups |-> groups, scheduled_at |-> scheduled,
     likes_count |-> 0, comments_count |-> 0, shares_count |-> 0,
     created_at |-> isoformat(t), updated_at |-> isoformat(t),
     is_deleted |-> FALSE, deleted_at |-> None, media_paths |-> <<>>]

validate_caption(s) == Strip(s.caption) = <<>> \/ Len(s.caption) > MAX_CAPTION

validate_description(s) ==
    Strip(s.description) = <<>> \/ Len(s.description) < MIN_DESCRIPTION

\* re.compile(r'^[a-zA-Z0-9_]+$').match(tag): one or more tag characters up
\* to the end of the text, where "$" also matches just before one final
\* newline.
TagMatches(tag) ==
    LET body == IF tag # <<>> /\ tag[Len(tag)] = "\n"
                THEN SubSeq(tag, 1, Len(tag) - 1) ELSE tag
    IN  body # <<>> /\ \A k \in 1..Len(body) : IsTagChar(body[k])

validate_tags(s) ==
    \/ Len(s.tags) > MAX_TAGS
    \/ \E k \in 1..Len(s.tags) : ~TagMatches(LStripHash(s.tags[k]))

validate_category(s) == s.category \notin VALID_CATEGORIES

validate_privacy(s) == s.privacy \notin VALID_PRIVACY_OPTIONS

\* A check of the groups that accepts every list.
validate_allowed_groups_never(s) == FALSE

validate_allowed_groups(s) == Len(s.allowed_groups) = 0

\* StoryPost.validate: the fields that carry an error message.
validate(s) ==
    {f \in {"caption"} : validate_caption(s)}
    \cup {f \in {"description"} : validate_description(s)}
    \cup {f \in {"tags"} : validate_tags(s)}
    \cup {f \in {"category"} : validate_category(s)}
    \cup {f \in {"privacy"} : validate_privacy(s)}
    \cup {f \in {"allowed_groups"} :
            s.privacy = "Specific Groups" /\ validate_allowed_groups(s)}

\* A story that never locks.
is_editable_always(s, t) == TRUE

\* hours_since_creation < EDIT_LOCK_HOURS
is_editable(s, t) ==
    (t - fromisoformat(s.created_at)) * HoursPerTick < EDIT_LOCK_HOURS

\* A window that still admits the seventh day.
can_be_restored_inclusive(s, t) ==
    IF ~s.is_deleted \/ IsNone(s.deleted_at) THEN FALSE
    ELSE (t - fromisoformat(s.deleted_at[1])) \div TicksPerDay <= RESTORE_DAYS

\* timedelta.days is the floor of the difference in days.
can_be_restored(s, t) ==
    IF ~s.is_deleted \/ IsNone(s.deleted_at) THEN FALSE
    ELSE (t - fromisoformat(s.deleted_at[1])) \div TicksPerDay < RESTORE_DAYS

is_published(s, t) ==
    IF IsNone(s.scheduled_at) THEN TRUE
    ELSE t >= fromisoformat(s.scheduled_at[1])

\* create_story and update_story clean the tags they are given.
CleanTags(tags) ==
    LET kept == SelectSeq(tags, LAMBDA tg : Strip(tg) # <<>>)
    IN  [k \in 1..Len(kept) |-> LStripHash(kept[k])]

(* ------------------------------ catalog ------------------------------- *)
Achievement(id, rule_type, rule_value, active, badge_ids) ==
    [id |-> id, rule_type |-> rule_type, rule_value |-> rule_value,
     active |-> active, badge_ids |-> badge_ids]

\* The catalogs a run may start with; the rows are in id order.  Badge 1 is
\* linked to two achievements of CatalogA.
CatalogA ==
    << Achievement(1, "stories_created_total", 1, TRUE, <<1>>),
       Achievement(2, "likes_received_total", 1, TRUE, <<1, 2>>) >>

CatalogB ==
    << Achievement(1, "comments_written_total", 1, TRUE, <<1, 2>>),
       Achievement(2, "shares_received_total", 2, TRUE, <<2>>),
       Achievement(3, "stories_created_total", 1, FALSE, <<1>>) >>

Catalogs == {CatalogA, CatalogB}

Badges == {1, 2}
AchievementIds == {1, 2, 3}

(* ------------------------------- state -------------------------------- *)
VARIABLES
    stories,              \* table stories: id -> row
    next_story_id,        \* AUTOINCREMENT of stories
    comments,             \* table comments: id -> row
    next_comment_id,      \* AUTOINCREMENT of comments
    achievements,         \* tables achievements and achievement_badges
    user_achievements,    \* table user_achievements, in insertion order
    user_badges,          \* table user_badges, in insertion order
    user_activity_dates,  \* table user_activity_dates
    now,                  \* the clock, in ticks
    proc,                 \* the request each process is serving
    calls,                \* requests started so far
    hist,                 \* what the requests so far have done
    last,                 \* SpecLife: the last handler call and its result
    uploads               \* the files in UPLOAD_FOLDER, in the order saved

vars == << stories, next_story_id, comments, next_comment_id, achievements,
           user_achievements, user_badges, user_activity_dates, now, proc,
           calls, hist, last, uploads >>

db == << stories, next_story_id, comments, next_comment_id, achievements,
         user_achievements, user_badges, user_activity_dates >>

(* --------------------------- story store ------------------------------ *)
StoryIds == 1..MaxStories
CommentIds == 1..MaxComments

\* StoryRepository.find_by_id
find_by_id(tbl, id) == IF id \in DOMAIN tbl THEN Some(tbl[id]) ELSE None

\* INSERT INTO stories: the row gets the next id.
InsertRow(tbl, id, row) == [k \in DOMAIN tbl \cup {id} |-> IF k = id THEN row ELSE tbl[k]]

DeleteRows(tbl, ids) == [k \in DOMAIN tbl \ ids |-> tbl[k]]

\* A read-modify-write that writes back the count it read at creation plus one.
increment_likes_stale(tbl, id) ==
    IF id \in DOMAIN tbl THEN [tbl EXCEPT ![id].likes_count = 1] ELSE tbl

\* UPDATE stories SET likes_count = likes_count + 1 WHERE id = ?
increment_likes(tbl, id) ==
    IF id \in DOMAIN tbl
    THEN [tbl EXCEPT ![id].likes_count = tbl[id].likes_count + 1] ELSE tbl

\* A decrement without the floor.
decrement_likes_no_floor(tbl, id) ==
    IF id \in DOMAIN tbl
    THEN [tbl EXCEPT ![id].likes_count = tbl[id].likes_count - 1] ELSE tbl

\* UPDATE stories SET likes_count = MAX(0, likes_count - 1) WHERE id = ?
decrement_likes(tbl, id) ==
    IF id \in DOMAIN tbl
    THEN [tbl EXCEPT ![id].likes_count = Max(0, tbl[id].likes_count - 1)] ELSE tbl

\* UPDATE stories SET shares_count = shares_count + 1 WHERE id = ?
increment_shares(tbl, id) ==
    IF id \in DOMAIN tbl
    THEN [tbl EXCEPT ![id].shares_count = tbl[id].shares_count + 1] ELSE tbl

\* RETURNING likes_count: the row's new value, 0 when no row matched.
ReturnedLikes(tbl, id) == IF id \in DOMAIN tbl THEN tbl[id].likes_count ELSE 0
ReturnedShares(tbl, id) == IF id \in DOMAIN tbl THEN tbl[id].shares_count ELSE 0

\* UPDATE stories SET is_deleted = 1, deleted_at = ? WHERE id = ?
soft_delete(tbl, id, t) ==
    IF id \in DOMAIN tbl
    THEN [tbl EXCEPT ![id].is_deleted = TRUE, ![id].deleted_at = Some(isoformat(t))]
    ELSE tbl

\* UPDATE stories SET is_deleted = 0, deleted_at = NULL WHERE id = ?
restore(tbl, id) ==
    IF id \in DOMAIN tbl
    THEN [tbl EXCEPT ![id].is_deleted = FALSE, ![id].deleted_at = None]
    ELSE tbl

\* SELECT * FROM stories WHERE is_deleted = 1
DeletedIds(tbl) == {k \in DOMAIN tbl : tbl[k].is_deleted}

\* A sweep that deletes every row it read, expired or not.
ExpiredOfAll(rows, t) == {x[1] : x \in rows}

\* The rows of a result set (pairs of id and row) that purge_expired deletes.
ExpiredOf(rows, t) == {x[1] : x \in {y \in rows : ~can_be_restored(y[2], t)}}

(* -------------------------- comment store ----------------------------- *)
Comment(story_id, author_id) == [story_id |-> story_id, author_id |-> author_id]

\* CommentRepository.create, second statement:
\* UPDATE stories SET comments_count = comments_count + 1 WHERE id = ?
increment_comments(tbl, id) ==
    IF id \in DOMAIN tbl
    THEN [tbl EXCEPT ![id].comments_count = tbl[id].comments_count + 1] ELSE tbl

\* CommentRepository.delete, last statement:
\* UPDATE stories SET comments_count = MAX(0, comments_count - 1) WHERE id = ?
decrement_comments(tbl, id) ==
    IF id \in DOMAIN tbl
    THEN [tbl EXCEPT ![id].comments_count = Max(0, tbl[id].comments_count - 1)]
    ELSE tbl

(* ------------------------ user progress store ------------------------- *)
RECURSIVE SumOver(_, _, _)
SumOver(tbl, ids, field) ==
    IF ids = {} THEN 0
    ELSE LET k == CHOOSE x \in ids : TRUE
         IN  tbl[k][field] + SumOver(tbl, ids \ {k}, field)

\* WHERE author_id = ? AND is_deleted = 0
LiveStoriesOf(tbl, u) == {k \in DOMAIN tbl : tbl[k].author_id = u /\ ~tbl[k].is_deleted}

\* Statistics whose streak is one day for every user with a live story.
get_user_stats_streak(tbl, cmts, u) ==
    [stories_created_total |-> Cardinality(LiveStoriesOf(tbl, u)),
     comments_written_total |-> Cardinality({c \in DOMAIN cmts : cmts[c].author_id = u}),
     likes_received_total |-> SumOver(tbl, LiveStoriesOf(tbl, u), "likes_count"),
     shares_received_total |-> SumOver(tbl, LiveStoriesOf(tbl, u), "shares_count"),
     days_active_streak |-> IF LiveStoriesOf(tbl, u) # {} THEN 1 ELSE 0]

\* UserProgressRepository.get_user_stats; the streak is the stub's 0.
get_user_stats(tbl, cmts, u) ==
    [stories_created_total |-> Cardinality(LiveStoriesOf(tbl, u)),
     comments_written_total |-> Cardinality({c \in DOMAIN cmts : cmts[c].author_id = u}),
     likes_received_total |-> SumOver(tbl, LiveStoriesOf(tbl, u), "likes_count"),
     shares_received_total |-> SumOver(tbl, LiveStoriesOf(tbl, u), "shares_count"),
     days_active_streak |-> 0]

NoStats ==
    [stories_created_total |-> 0, comments_written_total |-> 0,
     likes_received_total |-> 0, shares_received_total |-> 0,
     days_active_streak |-> 0]

\* Rows of a ledger table that match the unique key.
RowCount(rows, u, x) == Cardinality({k \in 1..Len(rows) : rows[k] = <<u, x>>})

\* A lookup that never finds the row.
has_row_never(rows, u, x) == FALSE

\* has_achievement / has_badge: SELECT 1 ... WHERE user_id = ? AND ..._id = ?
has_row(rows, u, x) == \E k \in 1..Len(rows) : rows[k] = <<u, x>>

\* A plain INSERT into a table without the unique key.
award_achievement_no_unique(rows, u, a) == Append(rows, <<u, a>>)

\* INSERT OR REPLACE: the conflicting row is deleted and a new one written.
award_achievement_replace(rows, u, a) ==
    Append(SelectSeq(rows, LAMBDA x : x # <<u, a>>), <<u, a>>)

\* INSERT OR IGNORE under UNIQUE(user_id, achievement_id)
award_achievement(rows, u, a) == IF has_row(rows, u, a) THEN rows ELSE Append(rows, <<u, a>>)

\* INSERT OR IGNORE under UNIQUE(user_id, badge_id)
award_badge(rows, u, b) == IF has_row(rows, u, b) THEN rows ELSE Append(rows, <<u, b>>)

\* A rowcount that reports a new row also for an insert that was ignored.
achievement_rowcount_always(rows, u, a) == 1

\* cursor.rowcount of award_achievement's insert: 1 for a new row, 0 when
\* the unique key made SQLite ignore it.
achievement_rowcount(rows, u, a) == IF has_row(rows, u, a) THEN 0 ELSE 1

\* A rowcount that reports every attempted insert as a new row.
badge_rowcount_always(rows, u, b) == 1

\* cursor.rowcount of award_badge's insert.
badge_rowcount(rows, u, b) == IF has_row(rows, u, b) THEN 0 ELSE 1

(* ------------------------ gamification engine ------------------------- *)
\* A catalog read with no WHERE active = 1.
find_all_any(cat) == cat

\* AchievementRepository.find_all_active: WHERE active = 1 ORDER BY id ASC
find_all_active(cat) == SelectSeq(cat, LAMBDA a : a.active)

\* A rule check that compares whatever the rule_type is, reading a stat it
\* does not know as 0 (stats.get(rule_type, 0)).
rule_satisfied_open(ach, stats) ==
    IF ach.rule_type \in DOMAIN stats THEN stats[ach.rule_type] >= ach.rule_value
    ELSE 0 >= ach.rule_value

\* GamificationService._rule_satisfied
rule_satisfied(ach, stats) ==
    IF ach.rule_type \in {"stories_created_total", "comments_written_total",
                          "likes_received_total", "shares_received_total",
                          "days_active_streak"}
    THEN stats[ach.rule_type] >= ach.rule_value
    ELSE FALSE

(* ------------------------ request processes --------------------------- *)
\* The locals of one request.  story is the StoryPost find_by_id returned
\* (the row as it was then), found whether there was one.
Idle ==
    [pc |-> "idle", op |-> "none", sid |-> NoId, uid |-> NoId, story |-> None,
     found |-> FALSE, stats |-> NoStats, active |-> <<>>, i |-> 0, j |-> 0,
     newly |-> <<>>, count |-> 0, ok |-> FALSE, msg |-> "", sel |-> {},
     inserted |-> FALSE, repeat |-> FALSE]

\* The input of create_story that the concurrent runs use: it passes
\* validate() and carries no media.
ValidCaption == <<"a">>
ValidDescription == Repeat("d", MIN_DESCRIPTION)

\* The end of evaluate_and_award and of the handler that called it: the
\* locals that are dead by then are dropped.
Finish(r) ==
    [r EXCEPT !.pc = "done", !.story = None, !.stats = NoStats,
              !.active = <<>>, !.i = 0, !.j = 0, !.sel = {}]

\* for ach in active_achievements: the next iteration, or the return.
Advance(r) ==
    IF r.i + 1 > Len(r.active) THEN Finish(r)
    ELSE [r EXCEPT !.pc = "has", !.i = r.i + 1, !.j = 0]

\* evaluate_and_award: if user_id is None: return []
BeginEval(r, u) ==
    IF u = NoId THEN Finish([r EXCEPT !.uid = NoId])
    ELSE [r EXCEPT !.pc = "stats", !.uid = u]

\* A write to stories or comments ends every "no stat change since" period.
Disturbed(h) == [h EXCEPT !.quiet = [q \in Procs |-> NoId]]

DisturbedProcs(p, r) ==
    [q \in Procs |-> IF q = p THEN r ELSE [proc[q] EXCEPT !.repeat = FALSE]]

\* The arguments of one update_story call; None is an argument left out.
UpdateArgs(caption, description, category, privacy, tags, groups) ==
    [caption |-> caption, description |-> description, category |-> category,
     privacy |-> privacy, tags |-> tags, allowed_groups |-> groups]

NoArgs == UpdateArgs(None, None, None, None, None, None)

\* The state after init_db, with a given catalog in the achievements tables.
InitWith(catalog) ==
    /\ stories = <<>>
    /\ next_story_id = 1
    /\ comments = <<>>
    /\ next_comment_id = 1
    /\ achievements = catalog
    /\ uploads = <<>>
    /\ user_achievements = <<>>
    /\ user_badges = <<>>
    /\ user_activity_dates = {}
    /\ now = 0
    /\ proc = [p \in Procs |-> Idle]
    /\ calls = 0
    /\ hist = [reported |-> [k \in Users \X Badges |-> 0],
               satisfied |-> {},
               ignored |-> {},
               quiet |-> [p \in Procs |-> NoId],
               likeCalls |-> [k \in StoryIds |-> 0],
               likeDone |-> [k \in StoryIds |-> 0],
               shareCalls |-> [k \in StoryIds |-> 0],
               shareDone |-> [k \in StoryIds |-> 0],
               unliked |-> [k \in StoryIds |-> FALSE],
               removed |-> {}]
    /\ last = [op |-> "none", sid |-> NoId, at |-> 0, args |-> NoArgs,
               before |-> None, ok |-> FALSE, errors |-> {}, msg |-> "",
               newly |-> <<>>]

Init == \E catalog \in Catalogs : InitWith(catalog)

CanStart(p) == proc[p].pc = "idle" /\ calls < MaxCalls

\* StoryService.create_story up to repository.create(story).
CreateStory(p, u) ==
    /\ CanStart(p)
    /\ next_story_id <= MaxStories
    /\ LET story == StoryPost(u, Strip(ValidCaption), Strip(ValidDescription),
                              "Life Lessons", "Public", <<>>, <<>>, None, now)
           r == [Idle EXCEPT !.op = "create", !.sid = next_story_id,
                             !.uid = u, !.ok = TRUE]
       IN  /\ validate(story) = {}
           /\ stories' = InsertRow(stories, next_story_id, story)
           /\ next_story_id' = next_story_id + 1
           /\ proc' = DisturbedProcs(p,
                         IF u = NoId THEN Finish(r) ELSE [r EXCEPT !.pc = "activity"])
    /\ calls' = calls + 1
    /\ hist' = Disturbed(hist)
    /\ UNCHANGED << comments, next_comment_id, achievements, uploads, user_achievements,
                    user_badges, user_activity_dates, now, last >>

\* CommentService.add_comment up to repository.create(comment): the insert
\* and the counter update commit together.
AddComment(p, sid, u) ==
    /\ CanStart(p)
    /\ next_comment_id <= MaxComments
    /\ comments' = InsertRow(comments, next_comment_id, Comment(sid, u))
    /\ next_comment_id' = next_comment_id + 1
    /\ stories' = increment_comments(stories, sid)
    /\ LET r == [Idle EXCEPT !.op = "comment", !.sid = sid, !.uid = u, !.ok = TRUE]
       IN  proc' = DisturbedProcs(p,
                      IF u = NoId THEN Finish(r) ELSE [r EXCEPT !.pc = "activity"])
    /\ calls' = calls + 1
    /\ hist' = Disturbed(hist)
    /\ UNCHANGED << next_story_id, achievements, uploads, user_achievements, user_badges,
                    user_activity_dates, now, last >>

\* GamificationService.record_activity, then the call of evaluate_and_award.
RecordActivity(p) ==
    /\ proc[p].pc = "activity"
    /\ user_activity_dates' =
           user_activity_dates \cup {<< proc[p].uid, now \div TicksPerDay >>}
    /\ proc' = [proc EXCEPT ![p] = BeginEval(proc[p], proc[p].uid)]
    /\ UNCHANGED << stories, next_story_id, comments, next_comment_id,
                    achievements, uploads, user_achievements, user_badges, now, calls,
                    hist, last >>

\* evaluate_and_award: get_user_stats and find_all_active.
ReadStats(r) ==
    LET act == find_all_active(achievements)
        r1 == [r EXCEPT !.stats = get_user_stats(stories, comments, r.uid),
                        !.active = act]
    IN  IF act = <<>> THEN Finish(r1) ELSE [r1 EXCEPT !.pc = "has", !.i = 1]

GetUserStats(p) ==
    /\ proc[p].pc = "stats"
    /\ proc' = [proc EXCEPT ![p] = ReadStats(proc[p])]
    /\ UNCHANGED << db, uploads, now, calls, hist, last >>

\* A direct call of GamificationService.evaluate_and_award(u).
EvaluateAndAward(p, u) ==
    /\ CanStart(p)
    /\ LET r == [Idle EXCEPT !.op = "eval", !.uid = u, !.ok = TRUE,
                             !.repeat = (u # NoId /\ hist.quiet[p] = u)]
       IN  proc' = [proc EXCEPT ![p] =
                       IF u = NoId THEN Finish(r) ELSE ReadStats(r)]
    /\ calls' = calls + 1
    /\ hist' = [hist EXCEPT !.quiet[p] = u]
    /\ UNCHANGED << db, uploads, now, last >>

\* if has_achievement(...): continue / if not _rule_satisfied(...): continue
HasAchievement(p) ==
    /\ proc[p].pc = "has"
    /\ LET r == proc[p]
           ach == r.active[r.i]
           sat == rule_satisfied(ach, r.stats)
       IN  /\ proc' = [proc EXCEPT ![p] =
                          IF has_row(user_achievements, r.uid, ach.id) THEN Advance(r)
                          ELSE IF ~sat THEN Advance(r)
                          ELSE [r EXCEPT !.pc = "award"]]
           /\ hist' = IF sat
                      THEN [hist EXCEPT !.satisfied = @ \cup {<< r.uid, ach.id >>}]
                      ELSE hist
    /\ UNCHANGED << db, uploads, now, calls, last >>

\* if not award_achievement(user_id, ach.id): continue
AwardAchievement(p) ==
    /\ proc[p].pc = "award"
    /\ LET r == proc[p]
           ach == r.active[r.i]
           ins == achievement_rowcount(user_achievements, r.uid, ach.id) > 0
           r1 == [r EXCEPT !.inserted = r.inserted \/ ins]
       IN  /\ user_achievements' = award_achievement(user_achievements, r.uid, ach.id)
           /\ proc' = [proc EXCEPT ![p] =
                          IF ~ins \/ ach.badge_ids = <<>> THEN Advance(r1)
                          ELSE [r1 EXCEPT !.pc = "badge", !.j = 1]]
           /\ hist' = IF ins THEN hist
                      ELSE [hist EXCEPT !.ignored = @ \cup {<< r.uid, ach.id >>}]
    /\ UNCHANGED << stories, next_story_id, comments, next_comment_id,
                    achievements, uploads, user_badges, user_activity_dates, now, calls,
                    last >>

\* for badge_id in ach.badge_ids: if award_badge(...): append the badge
AwardBadge(p) ==
    /\ proc[p].pc = "badge"
    /\ LET r == proc[p]
           ach == r.active[r.i]
           b == ach.badge_ids[r.j]
           ins == badge_rowcount(user_badges, r.uid, b) > 0
           r1 == [r EXCEPT !.inserted = r.inserted \/ ins,
                           !.newly = IF ins /\ b \in Badges THEN Append(r.newly, b)
                                     ELSE r.newly]
       IN  /\ user_badges' = award_badge(user_badges, r.uid, b)
           /\ proc' = [proc EXCEPT ![p] =
                          IF r.j = Len(ach.badge_ids) THEN Advance(r1)
                          ELSE [r1 EXCEPT !.j = r.j + 1]]
           /\ hist' = IF ins /\ b \in Badges
                      THEN [hist EXCEPT !.reported[<< r.uid, b >>] = @ + 1]
                      ELSE hist
    /\ UNCHANGED << stories, next_story_id, comments, next_comment_id,
                    achievements, uploads, user_achievements, user_activity_dates, now,
                    calls, last >>

\* like_story / unlike_story / share_story / delete_story / restore_story,
\* first statement: story = self.repository.find_by_id(story_id); delete and
\* restore return at once when there is no story, restore also when the story
\* read is not deleted or is past its recovery window.
FindStory(p, op, sid) ==
    /\ CanStart(p)
    /\ LET st == find_by_id(stories, sid)
           r == [Idle EXCEPT !.op = op, !.sid = sid, !.story = st,
                             !.found = ~IsNone(st)]
       IN  proc' = [proc EXCEPT ![p] =
                       IF op \in {"delete", "restore"} /\ IsNone(st)
                       THEN Finish([r EXCEPT !.msg = "Story not found"])
                       ELSE IF op = "restore" /\ ~st[1].is_deleted
                       THEN Finish([r EXCEPT !.msg = "Story is not deleted"])
                       ELSE IF op = "restore" /\ ~can_be_restored(st[1], now)
                       THEN Finish([r EXCEPT !.msg = "Story cannot be restored (expired after 7 days)"])
                       ELSE [r EXCEPT !.pc = "write"]]
    /\ calls' = calls + 1
    /\ hist' = IF op = "like" THEN [hist EXCEPT !.likeCalls[sid] = @ + 1]
               ELSE IF op = "share" THEN [hist EXCEPT !.shareCalls[sid] = @ + 1]
               ELSE hist
    /\ UNCHANGED << db, uploads, now, last >>

\* The owner that like/unlike/share evaluate: the author of the story read
\* at the start of the call.
OwnerOf(r) == IF IsNone(r.story) THEN NoId ELSE r.story[1].author_id

\* like_story: new_count = increment_likes(story_id), then the evaluation.
LikeStory(p) ==
    /\ proc[p].pc = "write" /\ proc[p].op = "like"
    /\ LET r == proc[p]
       IN  /\ stories' = increment_likes(stories, r.sid)
           /\ proc' = DisturbedProcs(p,
                  BeginEval([r EXCEPT !.count = ReturnedLikes(stories', r.sid),
                                      !.ok = TRUE], OwnerOf(r)))
    /\ hist' = Disturbed(hist)
    /\ UNCHANGED << next_story_id, comments, next_comment_id, achievements, uploads,
                    user_achievements, user_badges, user_activity_dates, now,
                    calls, last >>

\* unlike_story: new_count = decrement_likes(story_id), then the evaluation.
UnlikeStory(p) ==
    /\ proc[p].pc = "write" /\ proc[p].op = "unlike"
    /\ LET r == proc[p]
       IN  /\ stories' = decrement_likes(stories, r.sid)
           /\ proc' = DisturbedProcs(p,
                  BeginEval([r EXCEPT !.count = ReturnedLikes(stories', r.sid),
                                      !.ok = TRUE], OwnerOf(r)))
           /\ hist' = [Disturbed(hist) EXCEPT !.unliked[r.sid] = TRUE]
    /\ UNCHANGED << next_story_id, comments, next_comment_id, achievements, uploads,
                    user_achievements, user_badges, user_activity_dates, now,
                    calls, last >>

\* share_story: new_count = increment_shares(story_id), then the evaluation.
ShareStory(p) ==
    /\ proc[p].pc = "write" /\ proc[p].op = "share"
    /\ LET r == proc[p]
       IN  /\ stories' = increment_shares(stories, r.sid)
           /\ proc' = DisturbedProcs(p,
                  BeginEval([r EXCEPT !.count = ReturnedShares(stories', r.sid),
                                      !.ok = TRUE], OwnerOf(r)))
    /\ hist' = Disturbed(hist)
    /\ UNCHANGED << next_story_id, comments, next_comment_id, achievements, uploads,
                    user_achievements, user_badges, user_activity_dates, now,
                    calls, last >>

\* delete_story: success = self.repository.soft_delete(story_id)
DeleteStory(p) ==
    /\ proc[p].pc = "write" /\ proc[p].op = "delete"
    /\ LET r == proc[p]
       IN  /\ stories' = soft_delete(stories, r.sid, now)
           /\ proc' = DisturbedProcs(p, Finish([r EXCEPT !.ok = r.sid \in DOMAIN stories]))
           /\ hist' = [Disturbed(hist) EXCEPT
                         !.removed = IF r.sid \in DOMAIN stories THEN @ \cup {r.sid} ELSE @]
    /\ UNCHANGED << next_story_id, comments, next_comment_id, achievements, uploads,
                    user_achievements, user_badges, user_activity_dates, now,
                    calls, last >>

\* restore_story: success = self.repository.restore(story_id)
RestoreStory(p) ==
    /\ proc[p].pc = "write" /\ proc[p].op = "restore"
    /\ LET r == proc[p]
           hit == r.sid \in DOMAIN stories
       IN  /\ stories' = restore(stories, r.sid)
           /\ proc' = DisturbedProcs(p,
                  Finish([r EXCEPT !.ok = hit,
                                   !.msg = IF hit THEN "Story restored successfully"
                                           ELSE "Failed to restore story"]))
           /\ hist' = [Disturbed(hist) EXCEPT !.removed = @ \ {r.sid}]
    /\ UNCHANGED << next_story_id, comments, next_comment_id, achievements, uploads,
                    user_achievements, user_badges, user_activity_dates, now,
                    calls, last >>

\* purge_expired, first statement: SELECT * FROM stories WHERE is_deleted = 1
PurgeSelect(p) ==
    /\ CanStart(p)
    /\ proc' = [proc EXCEPT ![p] =
                   [Idle EXCEPT !.op = "purge", !.pc = "purge",
                                !.sel = {<< k, stories[k] >> : k \in DeletedIds(stories)}]]
    /\ calls' = calls + 1
    /\ UNCHANGED << db, uploads, now, hist, last >>

\* purge_expired, the loop and the commit: every row read that
\* can_be_restored() refuses is deleted by id.
PurgeDelete(p) ==
    /\ proc[p].pc = "purge"
    /\ LET r == proc[p]
           gone == ExpiredOf(r.sel, now)
       IN  /\ stories' = DeleteRows(stories, gone)
           /\ proc' = DisturbedProcs(p, Finish([r EXCEPT !.ok = TRUE,
                                                         !.count = Cardinality(gone)]))
           /\ hist' = [Disturbed(hist) EXCEPT !.removed = @ \ gone]
    /\ UNCHANGED << next_story_id, comments, next_comment_id, achievements, uploads,
                    user_achievements, user_badges, user_activity_dates, now,
                    calls, last >>

\* A recovery window passes.
TickWindow ==
    /\ now + RESTORE_DAYS * TicksPerDay <= MaxNow
    /\ now' = now + RESTORE_DAYS * TicksPerDay
    /\ UNCHANGED << db, uploads, proc, calls, hist, last >>

\* CommentService.delete_comment: CommentRepository.delete in one transaction.
DeleteComment(p, cid) ==
    /\ CanStart(p)
    /\ LET hit == cid \in DOMAIN comments
           r == [Idle EXCEPT !.op = "delcomment", !.sid = cid, !.ok = hit]
       IN  /\ comments' = DeleteRows(comments, {cid})
           /\ stories' = IF hit THEN decrement_comments(stories, comments[cid].story_id)
                         ELSE stories
           /\ proc' = IF hit THEN DisturbedProcs(p, Finish(r))
                      ELSE [proc EXCEPT ![p] = Finish(r)]
           /\ hist' = IF hit THEN Disturbed(hist) ELSE hist
    /\ calls' = calls + 1
    /\ UNCHANGED << next_story_id, next_comment_id, achievements, uploads,
                    user_achievements, user_badges, user_activity_dates, now,
                    last >>

\* The handler returns its result to the caller.
Return(p) ==
    /\ proc[p].pc = "done"
    /\ LET r == proc[p]
       IN  hist' = IF r.op = "like" /\ r.found
                   THEN [hist EXCEPT !.likeDone[r.sid] = @ + 1]
                   ELSE IF r.op = "share" /\ r.found
                   THEN [hist EXCEPT !.shareDone[r.sid] = @ + 1]
                   ELSE hist
    /\ proc' = [proc EXCEPT ![p] = Idle]
    /\ UNCHANGED << db, uploads, now, calls, last >>

ProcNext(p) ==
        \/ \E u \in Users \cup {NoId} : CreateStory(p, u)
        \/ \E sid \in StoryIds, u \in Users \cup {NoId} : AddComment(p, sid, u)
        \/ \E u \in Users \cup {NoId} : EvaluateAndAward(p, u)
        \/ \E op \in {"like", "unlike", "share", "delete", "restore"}, sid \in StoryIds :
               FindStory(p, op, sid)
        \/ PurgeSelect(p)
        \/ PurgeDelete(p)
        \/ RestoreStory(p)
        \/ \E cid \in CommentIds : DeleteComment(p, cid)
        \/ RecordActivity(p)
        \/ GetUserStats(p)
        \/ HasAchievement(p)
        \/ AwardAchievement(p)
        \/ AwardBadge(p)
        \/ LikeStory(p)
        \/ UnlikeStory(p)
        \/ ShareStory(p)
        \/ DeleteStory(p)
        \/ Return(p)

Next == (\E p \in Procs : ProcNext(p)) \/ TickWindow

Spec == Init /\ [][Next]_vars

(* ====================================================================== *)
(* Properties of the gamification engine and the counters, under Spec     *)
(* ====================================================================== *)
\* No request is between its first and its last statement.
Quiescent == \A p \in Procs : proc[p].pc \in {"idle", "done"}

\* The catalog entry with a given id.
AchievementById(a) == CHOOSE x \in {achievements[k] : k \in 1..Len(achievements)} : x.id = a

IsPrefix(s, t) == Len(s) <= Len(t) /\ \A k \in 1..Len(s) : s[k] = t[k]

\* C1: at-most-once awarding.  No (user, achievement) and no (user, badge)
\* key is ever in the ledger twice; and once every evaluation has finished,
\* an achievement whose rule some evaluation of u found satisfied has
\* exactly one UserAchievement row and each of its linked badges exactly one
\* UserBadge row, however the evaluations interleaved.
AtMostOnceAwarding ==
    /\ \A u \in Users, a \in AchievementIds : RowCount(user_achievements, u, a) <= 1
    /\ \A u \in Users, b \in Badges : RowCount(user_badges, u, b) <= 1
    /\ Quiescent =>
          \A k \in hist.satisfied :
             /\ RowCount(user_achievements, k[1], k[2]) = 1
             /\ \A j \in 1..Len(AchievementById(k[2]).badge_ids) :
                   RowCount(user_badges, k[1], AchievementById(k[2]).badge_ids[j]) = 1

\* Two evaluations raced for the same achievement: one insert was ignored,
\* all have finished, and the ledger holds the one row.
AtMostOnceWitness ==
    /\ Quiescent
    /\ \E k \in hist.ignored :
          /\ RowCount(user_achievements, k[1], k[2]) = 1
          /\ \A j \in 1..Len(AchievementById(k[2]).badge_ids) :
                RowCount(user_badges, k[1], AchievementById(k[2]).badge_ids[j]) = 1

\* C2: no double-counted badges.  Over all evaluations, a badge is put into
\* the newly-earned lists for a user at most once, and only when its
\* UserBadge row is in the ledger; the lists of the requests in progress
\* hold no badge twice.
NoDoubleCountedBadges ==
    /\ \A u \in Users, b \in Badges :
          /\ hist.reported[<< u, b >>] <= 1
          /\ hist.reported[<< u, b >>] = 1 => has_row(user_badges, u, b)
    /\ \A p \in Procs : \A i, j \in 1..Len(proc[p].newly) :
          proc[p].newly[i] = proc[p].newly[j] => i = j

\* A user holds two achievements that link the same badge, and the badge
\* was reported once.
SharedBadgeReportedOnce ==
    \E u \in Users, b \in Badges :
       /\ hist.reported[<< u, b >>] = 1
       /\ Cardinality({a \in AchievementIds :
             /\ has_row(user_achievements, u, a)
             /\ \E j \in 1..Len(AchievementById(a).badge_ids) :
                   AchievementById(a).badge_ids[j] = b}) >= 2

\* C3: idempotence of awarding.  An evaluate_and_award(u) that the same
\* caller runs straight after another one for u, with no write to stories
\* or comments since the first began, inserts no ledger row and returns the
\* empty list.
IdempotentAwarding ==
    \A p \in Procs : proc[p].repeat => ~proc[p].inserted /\ proc[p].newly = <<>>

\* A repeated evaluation has finished for a user who holds an award.
RepeatedEvaluationDone ==
    \E p \in Procs :
       /\ proc[p].repeat /\ proc[p].pc = "done"
       /\ has_row(user_achievements, proc[p].uid, 1)
       /\ \E b \in Badges : has_row(user_badges, proc[p].uid, b)

\* C4: no lost like updates.  For a story that was never unliked, the
\* likes_count is at least the number of like_story calls that found the
\* story and have returned, and at most the number of calls started; so
\* when N calls on an existing story have all returned it is N.  The same
\* for shares_count and share_story.
NoLostLikes ==
    \A s \in DOMAIN stories :
       /\ ~hist.unliked[s] =>
             /\ hist.likeDone[s] <= stories[s].likes_count
             /\ stories[s].likes_count <= hist.likeCalls[s]
       /\ hist.shareDone[s] <= stories[s].shares_count
       /\ stories[s].shares_count <= hist.shareCalls[s]

\* Two like_story calls on one story overlapped and both increments are in
\* the count: one call read the story at 0 likes and its own increment
\* returned 2, the other's returned 1.
TwoLikesCounted ==
    \E p, q \in Procs :
       /\ p # q /\ proc[p].op = "like" /\ proc[q].op = "like"
       /\ proc[p].sid = proc[q].sid /\ proc[p].sid \in DOMAIN stories
       /\ ~IsNone(proc[p].story) /\ proc[p].story[1].likes_count = 0
       /\ proc[p].count = 2 /\ proc[q].count = 1
       /\ stories[proc[p].sid].likes_count = 2

NonNegativeCounters ==
    \A s \in DOMAIN stories :
       /\ stories[s].likes_count >= 0
       /\ stories[s].comments_count >= 0
       /\ stories[s].shares_count >= 0

\* The decrement of an unlike_story on a story whose likes_count is 0.
UnlikeAtZero(p) ==
    /\ proc[p].pc = "write" /\ proc[p].op = "unlike" /\ proc'[p].pc # "write"
    /\ proc[p].sid \in DOMAIN stories
    /\ stories[proc[p].sid].likes_count = 0

\* The delete of a comment on a story whose comments_count is 0.
DeleteCommentAtZero(c) ==
    /\ c \in DOMAIN comments /\ c \notin DOMAIN comments'
    /\ comments[c].story_id \in DOMAIN stories
    /\ stories[comments[c].story_id].comments_count = 0

\* C5: counters are never negative.  Every counter of every story is >= 0
\* in every state; unlike_story on a story whose likes_count is 0 leaves it
\* 0 and returns 0; delete_comment on a story whose comments_count is 0
\* leaves it 0.
CountersNeverNegative ==
    /\ []NonNegativeCounters
    /\ [][/\ \A p \in Procs : UnlikeAtZero(p) =>
                /\ stories'[proc[p].sid].likes_count = 0
                /\ proc'[p].count = 0
          /\ \A c \in CommentIds : DeleteCommentAtZero(c) =>
                stories'[comments[c].story_id].comments_count = 0]_vars

\* An unlike_story has decremented a story that was never liked: the count
\* is 0 and the call returned 0.
FloorReached ==
    \E p \in Procs :
       /\ proc[p].op = "unlike" /\ proc[p].pc = "done" /\ proc[p].found
       /\ proc[p].sid \in DOMAIN stories
       /\ hist.likeCalls[proc[p].sid] = 0
       /\ stories[proc[p].sid].likes_count = 0 /\ proc[p].count = 0

\* C6: earned is terminal and the ledger is append-only.  Every step leaves
\* the rows that user_achievements and user_badges hold in place and
\* unchanged; it can only add rows after them.
LedgerAppendOnly ==
    [][/\ IsPrefix(user_achievements, user_achievements')
       /\ IsPrefix(user_badges, user_badges')]_vars

\* An unlike_story has run its evaluation to the end for a user whose stat
\* is back below the threshold of an achievement the user holds.
EarnedOutlivesStat ==
    \E p \in Procs, k \in 1..Len(achievements) :
       /\ proc[p].op = "unlike" /\ proc[p].pc = "done" /\ proc[p].uid \in Users
       /\ achievements[k].active
       /\ has_row(user_achievements, proc[p].uid, achievements[k].id)
       /\ ~rule_satisfied(achievements[k],
                          get_user_stats(stories, comments, proc[p].uid))

\* The user a finished request was about: the author it was given, or the
\* author of the story it liked or shared.
SubjectOf(r) ==
    IF r.op \in {"create", "comment"} THEN r.uid
    ELSE IF r.op \in {"like", "share"} /\ r.sid \in DOMAIN stories
    THEN stories[r.sid].author_id
    ELSE NoId

\* C7: award on crossing the threshold.  When create_story or add_comment by
\* u, or like_story / share_story on a story authored by u, has completed
\* without error and no other request is in progress, u holds every active
\* achievement whose rule_value is <= u's current stat for its rule_type.
AwardOnCrossing ==
    \A p \in Procs :
       (/\ proc[p].pc = "done" /\ proc[p].ok
        /\ proc[p].op \in {"create", "comment", "like", "share"}
        /\ SubjectOf(proc[p]) \in Users
        /\ \A q \in Procs \ {p} : proc[q].pc = "idle")
       => \A k \in 1..Len(achievements) :
             (/\ achievements[k].active
              /\ rule_satisfied(achievements[k],
                    get_user_stats(stories, comments, SubjectOf(proc[p]))))
             => has_row(user_achievements, SubjectOf(proc[p]), achievements[k].id)

(* ====================================================================== *)
(* The story lifecycle: whole handlers, one after another, and the clock  *)
(* ====================================================================== *)
\* evaluate_and_award's inner loop: for badge_id in ach.badge_ids
RECURSIVE AwardBadgesFrom(_, _, _, _, _)
AwardBadgesFrom(ub, newly, u, ids, j) ==
    IF j > Len(ids) THEN [ub |-> ub, newly |-> newly]
    ELSE AwardBadgesFrom(award_badge(ub, u, ids[j]),
                         IF badge_rowcount(ub, u, ids[j]) > 0 /\ ids[j] \in Badges
                         THEN Append(newly, ids[j]) ELSE newly,
                         u, ids, j + 1)

\* evaluate_and_award's loop: for ach in active_achievements
RECURSIVE EvaluateFrom(_, _, _, _, _, _, _)
EvaluateFrom(ua, ub, newly, u, stats, active, i) ==
    IF i > Len(active) THEN [ua |-> ua, ub |-> ub, newly |-> newly]
    ELSE IF has_row(ua, u, active[i].id) \/ ~rule_satisfied(active[i], stats)
    THEN EvaluateFrom(ua, ub, newly, u, stats, active, i + 1)
    ELSE IF achievement_rowcount(ua, u, active[i].id) = 0
    THEN EvaluateFrom(award_achievement(ua, u, active[i].id), ub, newly, u, stats,
                      active, i + 1)
    ELSE LET b == AwardBadgesFrom(ub, newly, u, active[i].badge_ids, 1)
         IN  EvaluateFrom(award_achievement(ua, u, active[i].id), b.ub, b.newly, u,
                          stats, active, i + 1)

\* An evaluation without the user_id check: the absent user is evaluated
\* like any other.
evaluate_and_award_anyone(ua, ub, cat, tbl, cmts, u) ==
    EvaluateFrom(ua, ub, <<>>, u, get_user_stats(tbl, cmts, u), find_all_active(cat), 1)

\* GamificationService.evaluate_and_award run from its first statement to
\* its return with nothing in between.
evaluate_and_award(ua, ub, cat, tbl, cmts, u) ==
    IF u = NoId THEN [ua |-> ua, ub |-> ub, newly |-> <<>>]
    ELSE EvaluateFrom(ua, ub, <<>>, u, get_user_stats(tbl, cmts, u),
                      find_all_active(cat), 1)

\* caption LIKE '%term%': the term occurs somewhere in the text.
Contains(text, term) ==
    \E k \in 0..(Len(text) - Len(term)) :
       \A j \in 1..Len(term) : text[k + j] = term[j]

\* The WHERE clause of StoryRepository.find_all: the scheduled_at column is
\* TEXT and is compared with datetime.now().isoformat() as text.
find_all_where(row, t, search, category, include_deleted) ==
    /\ include_deleted \/ ~row.is_deleted
    /\ IsNone(row.scheduled_at) \/ TextLeq(row.scheduled_at[1], isoformat(t))
    /\ IsNone(search) \/ search[1] = <<>>
          \/ Contains(row.caption, search[1]) \/ Contains(row.description, search[1])
    /\ IsNone(category) \/ row.category = category[1]

\* The ORDER BY of find_all: whether row a comes before row b.
find_all_before(tbl, a, b, sort_by) ==
    IF sort_by = "likes" THEN tbl[a].likes_count > tbl[b].likes_count
    ELSE IF sort_by = "comments" THEN tbl[a].comments_count > tbl[b].comments_count
    ELSE ~TextLeq(tbl[a].created_at, tbl[b].created_at)

\* The rows of ids in ORDER BY order; rows the order does not separate come
\* in id order.
RECURSIVE OrderRows(_, _, _)
OrderRows(tbl, ids, sort_by) ==
    IF ids = {} THEN <<>>
    ELSE LET first == CHOOSE a \in ids : \A b \in ids \ {a} :
                         \/ find_all_before(tbl, a, b, sort_by)
                         \/ ~find_all_before(tbl, b, a, sort_by) /\ a < b
         IN  << first >> \o OrderRows(tbl, ids \ {first}, sort_by)

\* StoryRepository.find_all: the ids of the rows returned, in order.
find_all(tbl, t, search, category, sort_by, include_deleted) ==
    OrderRows(tbl, {k \in DOMAIN tbl :
                      find_all_where(tbl[k], t, search, category, include_deleted)},
              sort_by)

\* StoryRepository.find_deleted
find_deleted(tbl, t) == {k \in DeletedIds(tbl) : can_be_restored(tbl[k], t)}

\* update_story's assignments to the StoryPost it read.
ApplyUpdate(s, a, t) ==
    [s EXCEPT
       !.caption = IF is_editable(s, t) /\ ~IsNone(a.caption)
                   THEN Strip(a.caption[1]) ELSE s.caption,
       !.description = IF is_editable(s, t) /\ ~IsNone(a.description)
                       THEN Strip(a.description[1]) ELSE s.description,
       !.category = IF IsNone(a.category) THEN s.category ELSE a.category[1],
       !.privacy = IF IsNone(a.privacy) THEN s.privacy ELSE a.privacy[1],
       !.tags = IF IsNone(a.tags) THEN s.tags ELSE CleanTags(a.tags[1]),
       !.allowed_groups = IF IsNone(a.allowed_groups) THEN s.allowed_groups
                          ELSE a.allowed_groups[1]]

\* StoryRepository.update: every column is written from the StoryPost, with
\* a new updated_at.
update(tbl, id, s, t) ==
    IF id \in DOMAIN tbl THEN [tbl EXCEPT ![id] = [s EXCEPT !.updated_at = isoformat(t)]]
    ELSE tbl

\* What a handler reports: the call, the story it found, and its result.
Result(op, sid, args, before, ok, errors, msg, newly) ==
    [op |-> op, sid |-> sid, at |-> now, args |-> args, before |-> before,
     ok |-> ok, errors |-> errors, msg |-> msg, newly |-> newly]

\* The inputs the lifecycle runs draw from.
CaptionInputs == {ValidCaption, << " " >>}

\* scheduled_at is the text the client sent, stored as it came: left out,
\* or a minute-precision local time twelve hours ahead, written with
\* "T" or with a space between date and time.
ScheduledInputs(t) ==
    {None} \cup
    {Some([date |-> (t + 1) \div TicksPerDay, sep |-> c,
           time |-> (t + 1) % TicksPerDay, secs |-> FALSE]) : c \in {"T", " "}}

UpdateInputs ==
    {UpdateArgs(Some(<< " ", "b" >>), None, None, None, None, None),
     UpdateArgs(Some(<< "b" >>), Some(Repeat("e", MIN_DESCRIPTION)),
                Some("Historical Events"), None, None, None),
     UpdateArgs(None, None, Some("Family Traditions"), Some("Friends Only"),
                Some(<< << "#", "a" >>, << " " >> >>), Some(<< << "g" >> >>)),
     UpdateArgs(Some(<< " " >>), None, Some("Historical Events"), None, None, None),
     UpdateArgs(Some(<< "b" >>), None, Some("bogus"), None, None, None),
     UpdateArgs(None, None, None, Some("Specific Groups"), None, None),
     UpdateArgs(Some(<< "b" >>), Some(<< "e" >>), None, Some("Specific Groups"),
                None, Some(<< << "g" >> >>)),
     NoArgs}

CanCall == calls < MaxLifeCalls /\ \A p \in Procs : proc[p].pc = "idle"

\* StoryService.create_story, from the cleaning of its arguments to its
\* return.
CreateStoryCall(u, caption, scheduled) ==
    /\ CanCall
    /\ next_story_id <= MaxStories
    /\ LET story == StoryPost(u, Strip(caption), Strip(ValidDescription),
                              "Life Lessons", "Public", <<>>, <<>>, scheduled, now)
           errors == validate(story)
           given == [NoArgs EXCEPT !.caption = Some(caption)]
           tbl == InsertRow(stories, next_story_id, story)
           ev == evaluate_and_award(user_achievements, user_badges, achievements,
                                    tbl, comments, u)
       IN  IF errors # {}
           THEN /\ last' = Result("create", NoId, given, None, FALSE, errors, "", <<>>)
                /\ UNCHANGED << stories, next_story_id, user_achievements,
                                user_badges, user_activity_dates >>
           ELSE /\ stories' = tbl
                /\ next_story_id' = next_story_id + 1
                /\ user_activity_dates' =
                      IF u = NoId THEN user_activity_dates
                      ELSE user_activity_dates \cup {<< u, now \div TicksPerDay >>}
                /\ user_achievements' = ev.ua
                /\ user_badges' = ev.ub
                /\ last' = Result("create", next_story_id, given, None, TRUE, {}, "",
                                  ev.newly)
    /\ calls' = calls + 1
    /\ UNCHANGED << comments, next_comment_id, achievements, uploads, now, proc, hist >>

\* StoryService.update_story
UpdateStoryCall(sid, a) ==
    /\ CanCall
    /\ LET st == find_by_id(stories, sid)
           s1 == ApplyUpdate(st[1], a, now)
       IN  IF IsNone(st)
           THEN /\ last' = Result("update", sid, a, st, FALSE, {"general"},
                                  "Story not found", <<>>)
                /\ UNCHANGED stories
           ELSE IF st[1].is_deleted
           THEN /\ last' = Result("update", sid, a, st, FALSE, {"general"},
                                  "Cannot edit a deleted story", <<>>)
                /\ UNCHANGED stories
           ELSE IF validate(s1) # {}
           THEN /\ last' = Result("update", sid, a, st, FALSE, validate(s1), "", <<>>)
                /\ UNCHANGED stories
           ELSE /\ stories' = update(stories, sid, s1, now)
                /\ last' = Result("update", sid, a, st, TRUE, {}, "", <<>>)
    /\ calls' = calls + 1
    /\ UNCHANGED << next_story_id, comments, next_comment_id, achievements, uploads,
                    user_achievements, user_badges, user_activity_dates, now, proc,
                    hist >>

\* StoryService.delete_story
DeleteStoryCall(sid) ==
    /\ CanCall
    /\ LET st == find_by_id(stories, sid)
       IN  IF IsNone(st)
           THEN /\ last' = Result("delete", sid, NoArgs, st, FALSE, {}, "", <<>>)
                /\ UNCHANGED stories
           ELSE /\ stories' = soft_delete(stories, sid, now)
                /\ last' = Result("delete", sid, NoArgs, st, TRUE, {}, "", <<>>)
    /\ calls' = calls + 1
    /\ UNCHANGED << next_story_id, comments, next_comment_id, achievements, uploads,
                    user_achievements, user_badges, user_activity_dates, now, proc,
                    hist >>

\* StoryService.restore_story
RestoreStoryCall(sid) ==
    /\ CanCall
    /\ LET st == find_by_id(stories, sid)
       IN  IF IsNone(st)
           THEN /\ last' = Result("restore", sid, NoArgs, st, FALSE, {},
                                  "Story not found", <<>>)
                /\ UNCHANGED stories
           ELSE IF ~st[1].is_deleted
           THEN /\ last' = Result("restore", sid, NoArgs, st, FALSE, {},
                                  "Story is not deleted", <<>>)
                /\ UNCHANGED stories
           ELSE IF ~can_be_restored(st[1], now)
           THEN /\ last' = Result("restore", sid, NoArgs, st, FALSE, {},
                                  "Story cannot be restored (expired after 7 days)", <<>>)
                /\ UNCHANGED stories
           ELSE /\ stories' = restore(stories, sid)
                /\ last' = Result("restore", sid, NoArgs, st, TRUE, {},
                                  "Story restored successfully", <<>>)
    /\ calls' = calls + 1
    /\ UNCHANGED << next_story_id, comments, next_comment_id, achievements, uploads,
                    user_achievements, user_badges, user_activity_dates, now, proc,
                    hist >>

\* StoryService.purge_expired_stories
PurgeExpiredCall ==
    /\ CanCall
    /\ LET gone == ExpiredOf({<< k, stories[k] >> : k \in DeletedIds(stories)}, now)
       IN  /\ stories' = DeleteRows(stories, gone)
           /\ last' = [Result("purge", NoId, NoArgs, None, TRUE, {}, "", <<>>)
                         EXCEPT !.sid = Cardinality(gone)]
    /\ calls' = calls + 1
    /\ UNCHANGED << next_story_id, comments, next_comment_id, achievements, uploads,
                    user_achievements, user_badges, user_activity_dates, now, proc,
                    hist >>

\* The instants at which the lifecycle runs look at the clock: the start,
\* 12 and 24 hours later, and every whole day from the sixth on.
Instants == {t \in 0..MaxNow : t * HoursPerTick <= EDIT_LOCK_HOURS
                                  \/ (t % TicksPerDay = 0 /\ t >= (RESTORE_DAYS - 1) * TicksPerDay)}

\* Time passes until the next instant.
Tick ==
    /\ \E t \in Instants : t > now
    /\ now' = CHOOSE t \in Instants : t > now /\ \A x \in Instants : x > now => t <= x
    /\ UNCHANGED << db, uploads, proc, calls, hist, last >>

NextLife ==
    \/ \E u \in Users, c \in CaptionInputs, sch \in ScheduledInputs(now) :
          CreateStoryCall(u, c, sch)
    \/ \E sid \in StoryIds, a \in UpdateInputs : UpdateStoryCall(sid, a)
    \/ \E sid \in StoryIds : DeleteStoryCall(sid)
    \/ \E sid \in StoryIds : RestoreStoryCall(sid)
    \/ PurgeExpiredCall
    \/ Tick

\* The lifecycle runs use the first catalog.
InitLife == Init /\ achievements = CatalogA

SpecLife == InitLife /\ [][NextLife]_vars

(* ====================================================================== *)
(* Properties of the story lifecycle, under SpecLife                      *)
(* ====================================================================== *)
SeqRange(q) == {q[k] : k \in 1..Len(q)}

\* The last call was an update_story that found a story that is not deleted.
UpdateDone ==
    last.op = "update" /\ ~IsNone(last.before) /\ ~last.before[1].is_deleted

\* now - T >= 24h at the call.
Locked ==
    (last.at - fromisoformat(last.before[1].created_at)) * HoursPerTick
        >= EDIT_LOCK_HOURS

\* The stored caption and description are the supplied ones, trimmed.
CaptionStored(s, a) ==
    /\ ~IsNone(a.caption) => s.caption = Strip(a.caption[1])
    /\ ~IsNone(a.description) => s.description = Strip(a.description[1])

\* The stored category, privacy, tags and allowed_groups are the supplied
\* ones, the tags without blank entries and leading '#'.
SuppliedStored(s, a) ==
    /\ ~IsNone(a.category) => s.category = a.category[1]
    /\ ~IsNone(a.privacy) => s.privacy = a.privacy[1]
    /\ ~IsNone(a.tags) => s.tags = CleanTags(a.tags[1])
    /\ ~IsNone(a.allowed_groups) => s.allowed_groups = a.allowed_groups[1]

\* The story the caller asked for: the one found, with every supplied value
\* put in, caption and description only before the lock.
Intended(b, a, locked) ==
    [b EXCEPT
       !.caption = IF locked \/ IsNone(a.caption) THEN b.caption ELSE Strip(a.caption[1]),
       !.description = IF locked \/ IsNone(a.description) THEN b.description
                       ELSE Strip(a.description[1]),
       !.category = IF IsNone(a.category) THEN b.category ELSE a.category[1],
       !.privacy = IF IsNone(a.privacy) THEN b.privacy ELSE a.privacy[1],
       !.tags = IF IsNone(a.tags) THEN b.tags ELSE CleanTags(a.tags[1]),
       !.allowed_groups = IF IsNone(a.allowed_groups) THEN b.allowed_groups
                          ELSE a.allowed_groups[1]]

InWindow(b, t) ==
    (t - fromisoformat(b.deleted_at[1])) < RESTORE_DAYS * TicksPerDay

\* C9: recovery window.  restore_story succeeds, clearing is_deleted and
\* deleted_at, if and only if the story exists, is soft-deleted and
\* now - deleted_at < 7 days; otherwise it fails with the message of the
\* case (not found / not deleted / expired) and the story is as it was.
RecoveryWindow ==
    last.op = "restore" =>
       LET b == last.before
           can == /\ ~IsNone(b) /\ b[1].is_deleted /\ ~IsNone(b[1].deleted_at)
                  /\ InWindow(b[1], last.at)
       IN  /\ last.ok <=> can
           /\ last.ok =>
                 stories[last.sid] = [b[1] EXCEPT !.is_deleted = FALSE,
                                                  !.deleted_at = None]
           /\ ~last.ok =>
                 IF IsNone(b)
                 THEN last.msg = "Story not found" /\ last.sid \notin DOMAIN stories
                 ELSE /\ stories[last.sid] = b[1]
                      /\ last.msg = IF ~b[1].is_deleted THEN "Story is not deleted"
                                    ELSE "Story cannot be restored (expired after 7 days)"

\* A story was restored six days after its soft delete.
RestoredAtDaySix ==
    /\ last.op = "restore" /\ last.ok
    /\ last.at - fromisoformat(last.before[1].deleted_at[1])
          = (RESTORE_DAYS - 1) * TicksPerDay
    /\ ~stories[last.sid].is_deleted /\ IsNone(stories[last.sid].deleted_at)

\* The filters find_all is called with.
SearchInputs == {None, Some(<< "a" >>)}
CategoryInputs == {None, Some("Life Lessons")}
SortInputs == {"recent", "likes", "comments"}

\* C10: scheduled publication.  A non-deleted story with scheduled_at set
\* is in no find_all result, whatever the filters, while now < scheduled_at,
\* and is in the unfiltered result whenever now >= scheduled_at; find_all
\* lists a non-deleted story exactly when its is_published() is true.
ScheduledPublication ==
    \A k \in DOMAIN stories :
       ~stories[k].is_deleted =>
          /\ ~IsNone(stories[k].scheduled_at) =>
                IF now < fromisoformat(stories[k].scheduled_at[1])
                THEN \A q \in SearchInputs, c \in CategoryInputs, o \in SortInputs,
                        d \in BOOLEAN :
                        k \notin SeqRange(find_all(stories, now, q, c, o, d))
                ELSE k \in SeqRange(find_all(stories, now, None, None, "recent", FALSE))
          /\ k \in SeqRange(find_all(stories, now, None, None, "recent", FALSE))
                <=> is_published(stories[k], now)

(* ====================================================================== *)
(* Requests that overlap a story update                                    *)
(* ====================================================================== *)
\* The update the overlapping runs send: a change of category, which is
\* accepted at any age of the story.
RaceUpdates == {UpdateArgs(None, None, Some("Historical Events"), None, None, None)}

\* update_story, from find_by_id to validate(): the StoryPost read is
\* changed in memory and kept for the write.
FindForUpdate(p, sid, a) ==
    /\ CanStart(p)
    /\ LET st == find_by_id(stories, sid)
           r == [Idle EXCEPT !.op = "update", !.sid = sid, !.found = ~IsNone(st)]
           s1 == ApplyUpdate(st[1], a, now)
       IN  proc' = [proc EXCEPT ![p] =
                       IF IsNone(st)
                       THEN Finish([r EXCEPT !.msg = "Story not found"])
                       ELSE IF st[1].is_deleted
                       THEN Finish([r EXCEPT !.msg = "Cannot edit a deleted story"])
                       ELSE IF validate(s1) # {}
                       THEN Finish(r)
                       ELSE [r EXCEPT !.pc = "write", !.story = Some(s1)]]
    /\ calls' = calls + 1
    /\ UNCHANGED << db, uploads, now, hist, last >>

\* update_story: success = self.repository.update(story)
UpdateStory(p) ==
    /\ proc[p].pc = "write" /\ proc[p].op = "update"
    /\ LET r == proc[p]
       IN  /\ stories' = update(stories, r.sid, r.story[1], now)
           /\ proc' = DisturbedProcs(p,
                  Finish([r EXCEPT !.ok = r.sid \in DOMAIN stories,
                                   !.msg = IF r.sid \in DOMAIN stories THEN ""
                                           ELSE "Failed to update story"]))
    /\ hist' = Disturbed(hist)
    /\ UNCHANGED << next_story_id, comments, next_comment_id, achievements, uploads,
                    user_achievements, user_badges, user_activity_dates, now,
                    calls, last >>

\* A storage error that takes the content write of the failing request
\* back with it, as one transaction around the whole handler would.
StorageErrorRollback(p) ==
    /\ proc[p].pc \in {"activity", "stats", "has", "award", "badge"}
    /\ proc' = [proc EXCEPT ![p] =
                   Finish([proc[p] EXCEPT !.ok = FALSE, !.msg = "sqlite3.Error",
                                          !.newly = <<>>])]
    /\ stories' = IF proc[p].op = "create" THEN DeleteRows(stories, {proc[p].sid})
                  ELSE IF proc[p].op = "like" THEN decrement_likes(stories, proc[p].sid)
                  ELSE stories
    /\ UNCHANGED << next_story_id, comments, next_comment_id, achievements, uploads,
                    user_achievements, user_badges, user_activity_dates, now,
                    calls, hist, last >>

\* A statement of record_activity or of evaluate_and_award raises
\* sqlite3.Error (the database is locked, the disk is full).  Neither the
\* gamification service nor the handler catches it: the request ends with
\* the exception, and what earlier statements committed stays.
StorageError(p) ==
    /\ proc[p].pc \in {"activity", "stats", "has", "award", "badge"}
    /\ proc' = [proc EXCEPT ![p] =
                   Finish([proc[p] EXCEPT !.ok = FALSE, !.msg = "sqlite3.Error",
                                          !.newly = <<>>])]
    /\ UNCHANGED << db, uploads, now, calls, hist, last >>

InitRace == InitWith(CatalogA)

\* The handlers that end with the gamification calls, any of whose
\* statements may raise.
FaultNext(p) ==
        \/ \E u \in Users \cup {NoId} : CreateStory(p, u)
        \/ \E sid \in StoryIds, u \in Users \cup {NoId} : AddComment(p, sid, u)
        \/ \E op \in {"like", "unlike", "share"}, sid \in StoryIds : FindStory(p, op, sid)
        \/ RecordActivity(p)
        \/ GetUserStats(p)
        \/ HasAchievement(p)
        \/ AwardAchievement(p)
        \/ AwardBadge(p)
        \/ LikeStory(p)
        \/ UnlikeStory(p)
        \/ ShareStory(p)
        \/ StorageError(p)
        \/ Return(p)

NextFault == \E p \in Procs : FaultNext(p)

SpecFault == InitRace /\ [][NextFault]_vars

NextRace ==
    \/ \E p \in Procs : ProcNext(p)
    \/ \E p \in Procs, sid \in StoryIds, a \in RaceUpdates : FindForUpdate(p, sid, a)
    \/ \E p \in Procs : UpdateStory(p)
    \/ TickWindow

SpecRace == InitRace /\ [][NextRace]_vars

\* C11: soft-deleted stories are hidden.  Whatever the filters, find_all
\* without include_deleted returns no story whose is_deleted flag is set;
\* and a story that a completed delete_story took out of the listing is in
\* no listing until a restore_story on it succeeds.
DeletedStoriesHidden ==
    \A q \in SearchInputs, c \in CategoryInputs, o \in SortInputs :
       \A k \in SeqRange(find_all(stories, now, q, c, o, FALSE)) :
          ~stories[k].is_deleted /\ k \notin hist.removed

\* Some request is inside evaluate_and_award(u).
Evaluating(u) ==
    \E p \in Procs : proc[p].uid = u /\ proc[p].pc \in {"stats", "has", "award", "badge"}

\* C12: achievement and badges are awarded atomically.  With a fixed
\* catalog, whenever no evaluate_and_award for u is in progress (a call
\* that a storage error ended between the achievement insert and a badge
\* insert included), u holding achievement A implies that u holds every
\* badge linked to A.
AwardedWithBadges ==
    \A u \in Users :
       ~Evaluating(u) =>
          \A k \in 1..Len(achievements) :
             has_row(user_achievements, u, achievements[k].id) =>
                \A j \in 1..Len(achievements[k].badge_ids) :
                   has_row(user_badges, u, achievements[k].badge_ids[j])

\* The step in which request p ends with the storage error.
FailsIn(p) ==
    /\ proc[p].pc \in {"activity", "stats", "has", "award", "badge"}
    /\ proc'[p].pc = "done" /\ proc'[p].msg = "sqlite3.Error"

\* C19: a gamification failure does not undo the content write.  When
\* record_activity or evaluate_and_award fails with a storage error inside
\* create_story, add_comment, like_story, unlike_story or share_story, the
\* request ends as a failed action with no badges returned, and the
\* content write it made before stays: the failure changes no story and no
\* comment row, the story created and the comment inserted are still there.
ContentOutlivesFailure ==
    [][\A p \in Procs :
          FailsIn(p) =>
             /\ proc[p].op \in {"create", "comment", "like", "unlike", "share"}
             /\ ~proc'[p].ok /\ proc'[p].newly = <<>>
             /\ stories' = stories /\ comments' = comments
             /\ proc[p].op = "create" =>
                   /\ proc[p].sid \in DOMAIN stories'
                   /\ stories'[proc[p].sid].author_id = proc[p].uid
             /\ proc[p].op = "comment" =>
                   \E c \in DOMAIN comments' :
                      comments'[c] = Comment(proc[p].sid, proc[p].uid)]_vars

\* A like whose evaluation failed is counted, and a story whose creation's
\* evaluation failed is stored.
FailedLikeCounted ==
    \E p, q \in Procs :
       /\ proc[p].pc = "done" /\ proc[p].op = "like" /\ proc[p].msg = "sqlite3.Error"
       /\ proc[p].sid \in DOMAIN stories /\ stories[proc[p].sid].likes_count = 1
       /\ proc[q].pc = "done" /\ proc[q].op = "create" /\ proc[q].msg = "sqlite3.Error"
       /\ proc[q].sid \in DOMAIN stories

(* ====================================================================== *)
(* Engagement: whole handlers, one after another, by several users         *)
(* ====================================================================== *)
Actors == 1..NActors

\* A catalog with a rule_type the engine does not know (achievement 3).
CatalogC ==
    << Achievement(1, "stories_created_total", 1, TRUE, <<1>>),
       Achievement(2, "likes_received_total", 1, TRUE, <<1, 2>>),
       Achievement(3, "followers_total", 0, TRUE, <<2>>),
       Achievement(4, "comments_written_total", 1, TRUE, <<2>>) >>

\* A validation that accepts every comment.
comment_validate_none(author_name, content) == {}

\* Comment.validate, on the stripped author_name and content.
comment_validate(author_name, content) ==
    (IF Strip(author_name) = <<>> \/ Len(author_name) > MAX_AUTHOR_NAME
     THEN {"author_name"} ELSE {})
    \cup
    (IF Strip(content) = <<>> \/ Len(content) > MAX_CONTENT
     THEN {"content"} ELSE {})

\* The (author_name, content) pairs add_comment is called with.
CommentInputs ==
    { << <<"b">>, <<"c">> >>,
      << <<" ">>, <<"c">> >>,
      << Repeat("n", MAX_AUTHOR_NAME + 1), <<"c">> >>,
      << <<"b">>, <<" ", " ">> >>,
      << <<" ", "b">>, Repeat("c", MAX_CONTENT + 1) >> }

\* CommentService.add_comment, from the Comment it builds to its return.
AddCommentCall(sid, u, author_name, content) ==
    /\ CanCall
    /\ next_comment_id <= MaxComments
    /\ LET errors == comment_validate(Strip(author_name), Strip(content))
           cmts == InsertRow(comments, next_comment_id, Comment(sid, u))
           tbl == increment_comments(stories, sid)
           ev == evaluate_and_award(user_achievements, user_badges, achievements,
                                    tbl, cmts, u)
       IN  IF errors # {}
           THEN /\ last' = Result("comment", sid, NoArgs, None, FALSE, errors, "", <<>>)
                              @@ [uid |-> u, author_name |-> author_name,
                                  content |-> content]
                /\ UNCHANGED << stories, comments, next_comment_id, user_achievements,
                                user_badges, user_activity_dates >>
           ELSE /\ comments' = cmts
                /\ next_comment_id' = next_comment_id + 1
                /\ stories' = tbl
                /\ user_activity_dates' =
                      IF u = NoId THEN user_activity_dates
                      ELSE user_activity_dates \cup {<< u, now \div TicksPerDay >>}
                /\ user_achievements' = ev.ua
                /\ user_badges' = ev.ub
                /\ last' = Result("comment", sid, NoArgs, None, TRUE, {}, "", ev.newly)
                              @@ [uid |-> u, author_name |-> author_name,
                                  content |-> content]
    /\ calls' = calls + 1
    /\ UNCHANGED << next_story_id, achievements, uploads, now, proc, hist >>

\* A handler that evaluates the first user whatever story was touched.
EngageCallFirstUser(op, sid, tbl) ==
    /\ CanCall
    /\ LET st == find_by_id(stories, sid)
           ev == evaluate_and_award(user_achievements, user_badges, achievements,
                                    tbl, comments, 1)
       IN  /\ stories' = tbl
           /\ user_achievements' = ev.ua
           /\ user_badges' = ev.ub
           /\ last' = Result(op, sid, NoArgs, st, TRUE, {}, "", ev.newly)
                         @@ [uid |-> 1]
    /\ calls' = calls + 1
    /\ UNCHANGED << next_story_id, comments, next_comment_id, achievements, uploads,
                    user_activity_dates, now, proc, hist >>

\* like_story / unlike_story / share_story: find_by_id, the counter
\* statement (tbl is the table after it), then the evaluation of the author
\* of the story that was read.
EngageCall(op, sid, tbl) ==
    /\ CanCall
    /\ LET st == find_by_id(stories, sid)
           owner == IF IsNone(st) THEN NoId ELSE st[1].author_id
           ev == evaluate_and_award(user_achievements, user_badges, achievements,
                                    tbl, comments, owner)
       IN  /\ stories' = tbl
           /\ user_achievements' = ev.ua
           /\ user_badges' = ev.ub
           /\ last' = Result(op, sid, NoArgs, st, TRUE, {}, "", ev.newly)
                         @@ [uid |-> owner]
    /\ calls' = calls + 1
    /\ UNCHANGED << next_story_id, comments, next_comment_id, achievements, uploads,
                    user_activity_dates, now, proc, hist >>

LikeStoryCall(sid) == EngageCall("like", sid, increment_likes(stories, sid))
UnlikeStoryCall(sid) == EngageCall("unlike", sid, decrement_likes(stories, sid))
ShareStoryCall(sid) == EngageCall("share", sid, increment_shares(stories, sid))

\* GamificationService.evaluate_and_award(u), called on its own.
EvaluateCall(u) ==
    /\ CanCall
    /\ LET ev == evaluate_and_award(user_achievements, user_badges, achievements,
                                    stories, comments, u)
       IN  /\ user_achievements' = ev.ua
           /\ user_badges' = ev.ub
           /\ last' = Result("eval", NoId, NoArgs, None, TRUE, {}, "", ev.newly)
                         @@ [uid |-> u]
    /\ calls' = calls + 1
    /\ UNCHANGED << stories, next_story_id, comments, next_comment_id, achievements,
                    uploads, user_activity_dates, now, proc, hist >>

\* AchievementRepository.update with the active flag changed.
SetActiveCall(k, flag) ==
    /\ CanCall
    /\ k \in 1..Len(achievements)
    /\ achievements[k].active # flag
    /\ achievements' = [achievements EXCEPT ![k].active = flag]
    /\ last' = Result("set_active", achievements[k].id, NoArgs, None, TRUE, {}, "", <<>>)
    /\ calls' = calls + 1
    /\ UNCHANGED << stories, next_story_id, comments, next_comment_id, uploads,
                    user_achievements, user_badges, user_activity_dates, now, proc,
                    hist >>

(* ------------------------------ media --------------------------------- *)
ALLOWED_EXTENSIONS == {"png", "jpg", "jpeg", "gif", "webp", "mp4", "webm", "mov", "avi"}
allowed_image_types == {"image/jpeg", "image/png", "image/gif", "image/webp"}
allowed_video_types == {"video/mp4", "video/webm", "video/quicktime", "video/x-msvideo"}

\* An uploaded file: its name split at the last dot (ext "" when there is
\* none), its size in bytes, the content type the client declared, the
\* image format its first bytes show ("none" when they show none), and
\* whether file.save() will succeed.
File(stem, ext, size, content_type, signature, writable) ==
    [stem |-> stem, ext |-> ext, size |-> size, content_type |-> content_type,
     signature |-> signature, writable |-> writable]

\* str.lower() on the extensions the runs use.
Lower(ext) == IF ext = "PNG" THEN "png" ELSE ext

\* StoryService._allowed_file
allowed_file(f) == f.ext # "" /\ Lower(f.ext) \in ALLOWED_EXTENSIONS

\* The check of one file in save_media_files: the error it appends, or
\* "ok" when the file gets saved.
media_check(f) ==
    IF ~allowed_file(f) THEN "Invalid file type"
    ELSE IF f.size > MAX_CONTENT_LENGTH THEN "File too large"
    ELSE IF f.size = 0 THEN "Empty file"
    ELSE IF f.content_type \notin allowed_image_types \cup allowed_video_types
    THEN "Invalid content type"
    ELSE IF f.content_type \in allowed_image_types
            /\ f.signature \notin {"jpeg", "png", "gif", "webp"}
    THEN "File content doesn't match image type"
    ELSE IF ~f.writable THEN "Failed to save"
    ELSE "ok"

\* StoryService.save_media_files: the loop over the files.  A file that
\* passes is written under a fresh name (uuid is the pair of the call and
\* the position in it) before the next file is looked at.
RECURSIVE save_media_files(_, _, _, _, _, _)
save_media_files(files, i, saved, errors, disk, call) ==
    IF i > Len(files) THEN [saved |-> saved, errors |-> errors, uploads |-> disk]
    ELSE IF files[i].stem = "" /\ files[i].ext = ""
    THEN save_media_files(files, i + 1, saved, errors, disk, call)
    ELSE IF media_check(files[i]) # "ok"
    THEN save_media_files(files, i + 1, saved, Append(errors, media_check(files[i])),
                          disk, call)
    ELSE LET path == [uuid |-> << call, i >>, stem |-> files[i].stem,
                      ext |-> files[i].ext]
         IN  save_media_files(files, i + 1, Append(saved, path), errors,
                              Append(disk, path), call)

\* The files the runs upload.
GoodImage == File("p", "png", 1, "image/png", "png", TRUE)
GoodVideo == File("v", "mp4", 1, "video/mp4", "none", TRUE)

MediaInputs ==
    { << GoodImage >>,
      << GoodImage, GoodVideo >>,
      << GoodImage, File("x", "exe", 1, "application/octet-stream", "none", TRUE) >>,
      << File("x", "", 1, "image/png", "png", TRUE), GoodVideo >>,
      << File("p", "PNG", 1, "image/png", "none", TRUE) >>,
      << File("p", "png", MAX_CONTENT_LENGTH + 1, "image/png", "png", TRUE) >>,
      << File("p", "png", 0, "image/png", "png", TRUE) >>,
      << File("p", "png", 1, "text/plain", "png", TRUE) >>,
      << GoodVideo, File("p", "png", 1, "image/png", "png", FALSE) >>,
      << File("", "", 0, "", "none", TRUE), GoodImage >> }

\* StoryService.create_story called with media_files: the story passes
\* validate(), then the files are saved, then the row is written.
CreateStoryWithMedia(u, files) ==
    /\ CanCall
    /\ next_story_id <= MaxStories
    /\ files # <<>>
    /\ LET story == StoryPost(u, Strip(ValidCaption), Strip(ValidDescription),
                              "Life Lessons", "Public", <<>>, <<>>, None, now)
           given == [NoArgs EXCEPT !.caption = Some(ValidCaption)]
           media == save_media_files(files, 1, <<>>, <<>>, uploads, calls + 1)
           tbl == InsertRow(stories, next_story_id,
                            [story EXCEPT !.media_paths = media.saved])
           ev == evaluate_and_award(user_achievements, user_badges, achievements,
                                    tbl, comments, u)
       IN  /\ validate(story) = {}
           /\ uploads' = media.uploads
           /\ IF media.errors # <<>>
              THEN /\ last' = Result("create", NoId, given, None, FALSE, {"media"}, "",
                                     <<>>)
                   /\ UNCHANGED << stories, next_story_id, user_achievements,
                                   user_badges, user_activity_dates >>
              ELSE /\ stories' = tbl
                   /\ next_story_id' = next_story_id + 1
                   /\ user_activity_dates' =
                         IF u = NoId THEN user_activity_dates
                         ELSE user_activity_dates \cup {<< u, now \div TicksPerDay >>}
                   /\ user_achievements' = ev.ua
                   /\ user_badges' = ev.ub
                   /\ last' = Result("create", next_story_id, given, None, TRUE, {}, "",
                                     ev.newly)
    /\ calls' = calls + 1
    /\ UNCHANGED << comments, next_comment_id, achievements, now, proc, hist >>

\* StoryService.update_story called with media_files.
UpdateStoryWithMedia(sid, a, files) ==
    /\ CanCall
    /\ files # <<>>
    /\ LET st == find_by_id(stories, sid)
           s1 == ApplyUpdate(st[1], a, now)
           media == save_media_files(files, 1, <<>>, <<>>, uploads, calls + 1)
           s2 == [s1 EXCEPT !.media_paths = s1.media_paths \o media.saved]
       IN  IF IsNone(st)
           THEN /\ last' = Result("update", sid, a, st, FALSE, {"general"},
                                  "Story not found", <<>>)
                /\ UNCHANGED << stories, uploads >>
           ELSE IF st[1].is_deleted
           THEN /\ last' = Result("update", sid, a, st, FALSE, {"general"},
                                  "Cannot edit a deleted story", <<>>)
                /\ UNCHANGED << stories, uploads >>
           ELSE IF validate(s1) # {}
           THEN /\ last' = Result("update", sid, a, st, FALSE, validate(s1), "", <<>>)
                /\ UNCHANGED << stories, uploads >>
           ELSE IF media.errors # <<>>
           THEN /\ last' = Result("update", sid, a, st, FALSE, {"media"}, "", <<>>)
                /\ uploads' = media.uploads
                /\ UNCHANGED stories
           ELSE /\ stories' = update(stories, sid, s2, now)
                /\ uploads' = media.uploads
                /\ last' = Result("update", sid, a, st, TRUE, {}, "", <<>>)
    /\ calls' = calls + 1
    /\ UNCHANGED << next_story_id, comments, next_comment_id, achievements,
                    user_achievements, user_badges, user_activity_dates, now, proc,
                    hist >>

NextEngage ==
    \/ \E u \in Actors \cup {NoId}, c \in CaptionInputs : CreateStoryCall(u, c, None)
    \/ \E sid \in StoryIds, u \in Actors \cup {NoId}, x \in CommentInputs :
          AddCommentCall(sid, u, x[1], x[2])
    \/ \E sid \in StoryIds : LikeStoryCall(sid)
    \/ \E sid \in StoryIds : UnlikeStoryCall(sid)
    \/ \E sid \in StoryIds : ShareStoryCall(sid)
    \/ \E u \in Actors \cup {NoId} : EvaluateCall(u)
    \/ \E k \in 1..Len(CatalogC), flag \in BOOLEAN : SetActiveCall(k, flag)
    \/ \E sid \in StoryIds : DeleteStoryCall(sid)
    \/ \E u \in Actors \cup {NoId}, files \in MediaInputs : CreateStoryWithMedia(u, files)
    \/ \E sid \in StoryIds, a \in RaceUpdates, files \in MediaInputs :
          UpdateStoryWithMedia(sid, a, files)

InitEngage == InitWith(CatalogC)

SpecEngage == InitEngage /\ [][NextEngage]_vars

\* The users of the ledger rows that a step adds.
NewAchievementUsers == {user_achievements'[k][1] : k \in (Len(user_achievements) + 1)..Len(user_achievements')}
NewBadgeUsers == {user_badges'[k][1] : k \in (Len(user_badges) + 1)..Len(user_badges')}

\* Every active achievement whose rule the stats of u satisfy is held by u:
\* nothing is left for an evaluation of u to award.
Settled(u) ==
    \A k \in 1..Len(achievements) :
       (achievements[k].active
          /\ rule_satisfied(achievements[k], get_user_stats(stories, comments, u)))
       => has_row(user_achievements, u, achievements[k].id)

\* The user the last call had to evaluate: the author of the story created
\* or touched, the author of the comment, the user passed to the evaluation.
TargetOf ==
    IF last.op \in {"create", "like", "unlike", "share"}
    THEN IF last.sid \in DOMAIN stories THEN stories[last.sid].author_id ELSE NoId
    ELSE IF last.op \in {"comment", "eval"} /\ last.ok THEN last.uid
    ELSE NoId

TargetSettled == TargetOf # NoId => Settled(TargetOf)

\* C13: evaluation target.  create_story and add_comment evaluate the
\* acting user and nobody else; like_story, unlike_story and share_story on
\* story s evaluate the author of s and nobody else, and add no ledger row
\* when s has no author or does not exist; no call changes or removes a
\* ledger row that was there, and evaluate_and_award(u) changes no story
\* and no comment row.
EvaluationTarget ==
    [][calls' = calls + 1 =>
          /\ IsPrefix(user_achievements, user_achievements')
          /\ IsPrefix(user_badges, user_badges')
          /\ NewAchievementUsers \cup NewBadgeUsers \subseteq {TargetOf'} \ {NoId}
          /\ TargetSettled'
          /\ last'.op \in {"like", "unlike", "share"} =>
                TargetOf' = (IF last'.sid \in DOMAIN stories
                             THEN stories[last'.sid].author_id ELSE NoId)
          /\ last'.op = "eval" => stories' = stories /\ comments' = comments]_vars

\* A like on a story of user 2 awarded the likes achievement and its new
\* badge to user 2, and nothing to user 1, who has a story too.
LikeAwardsAuthorOnly ==
    /\ last.op = "like" /\ last.sid \in DOMAIN stories
    /\ stories[last.sid].author_id = 2
    /\ last.newly = <<2>>
    /\ has_row(user_achievements, 2, 2) /\ ~has_row(user_achievements, 1, 2)
    /\ \E k \in DOMAIN stories : stories[k].author_id = 1

\* C14: anonymous actions never earn badges.  evaluate_and_award with no
\* user returns the empty list and writes nothing; create_story and
\* add_comment with no acting user store the story or the comment, return
\* no badges, and leave the award ledger and the activity dates as they
\* were.
AnonymousEarnsNothing ==
    [][calls' = calls + 1 =>
          /\ (last'.op = "eval" /\ last'.uid = NoId) =>
                last'.newly = <<>> /\ db' = db
          /\ (last'.op = "create" /\ last'.ok /\ stories'[last'.sid].author_id = NoId) =>
                /\ last'.sid \notin DOMAIN stories
                /\ last'.newly = <<>>
                /\ user_achievements' = user_achievements
                /\ user_badges' = user_badges
                /\ user_activity_dates' = user_activity_dates
          /\ (last'.op = "comment" /\ last'.ok /\ last'.uid = NoId) =>
                /\ next_comment_id \notin DOMAIN comments
                /\ next_comment_id \in DOMAIN comments'
                /\ comments'[next_comment_id] = Comment(last'.sid, NoId)
                /\ last'.newly = <<>>
                /\ user_achievements' = user_achievements
                /\ user_badges' = user_badges
                /\ user_activity_dates' = user_activity_dates]_vars

\* An anonymous story and an anonymous comment are stored, the achievements
\* for a first story and a first comment are active, and the ledger and the
\* activity dates are empty.
AnonymousContentStored ==
    /\ last.op = "create" /\ last.ok /\ stories[last.sid].author_id = NoId
    /\ \E c \in DOMAIN comments : comments[c].author_id = NoId
    /\ achievements[1].active /\ achievements[4].active
    /\ user_achievements = <<>> /\ user_badges = <<>> /\ user_activity_dates = {}

\* The last call was of a handler that runs the evaluation.
EvaluatingOps == {"create", "comment", "like", "unlike", "share", "eval"}

\* C15: inactive achievements are never evaluated.  A call that reads
\* achievement A as inactive inserts no user_achievements row for A,
\* whatever the stats, and every badge row it inserts is linked to an
\* active achievement it awarded to the same user; and no call, the
\* deactivation of A included, removes or changes a ledger row.
InactiveNeverAwarded ==
    [][calls' = calls + 1 =>
          /\ IsPrefix(user_achievements, user_achievements')
          /\ IsPrefix(user_badges, user_badges')
          /\ last'.op \in EvaluatingOps =>
                /\ \A k \in 1..Len(achievements), u \in Actors \cup {NoId} :
                      ~achievements[k].active =>
                         RowCount(user_achievements', u, achievements[k].id)
                            = RowCount(user_achievements, u, achievements[k].id)
                /\ \A n \in (Len(user_badges) + 1)..Len(user_badges') :
                      \E k \in 1..Len(achievements) :
                         /\ achievements[k].active
                         /\ ~has_row(user_achievements, user_badges'[n][1], achievements[k].id)
                         /\ has_row(user_achievements', user_badges'[n][1], achievements[k].id)
                         /\ \E j \in 1..Len(achievements[k].badge_ids) :
                               achievements[k].badge_ids[j] = user_badges'[n][2]]_vars

\* Achievement 1 was deactivated after user 1 earned it: user 1 still holds
\* it and its badge, and user 2, whose first story came later, holds neither.
AwardOutlivesDeactivation ==
    /\ last.op = "create" /\ last.ok /\ stories[last.sid].author_id = 2
    /\ ~achievements[1].active
    /\ has_row(user_achievements, 1, 1) /\ has_row(user_badges, 1, 1)
    /\ ~has_row(user_achievements, 2, 1) /\ ~has_row(user_badges, 2, 1)

\* The five rule types of the engine.
RuleTypes ==
    {"stories_created_total", "comments_written_total", "likes_received_total",
     "shares_received_total", "days_active_streak"}

\* What user u has to show for a rule type: the stories u wrote that are
\* not deleted, the likes and shares on them, the comments u wrote.
OwnStories(u) == {k \in DOMAIN stories : stories[k].author_id = u /\ ~stories[k].is_deleted}

OwnStat(u, rule_type) ==
    IF rule_type = "stories_created_total" THEN Cardinality(OwnStories(u))
    ELSE IF rule_type = "comments_written_total"
    THEN Cardinality({c \in DOMAIN comments : comments[c].author_id = u})
    ELSE IF rule_type = "likes_received_total"
    THEN SumOver(stories, OwnStories(u), "likes_count")
    ELSE IF rule_type = "shares_received_total"
    THEN SumOver(stories, OwnStories(u), "shares_count")
    ELSE 0

Meets(u, k) ==
    /\ achievements[k].rule_type \in RuleTypes
    /\ OwnStat(u, achievements[k].rule_type) >= achievements[k].rule_value

\* C16: threshold rule.  A call inserts the row (u, A) only if the
\* rule_type of A is one of the five and what u has to show, when the
\* call's evaluation reads it, is at least A's rule_value; so no user ever
\* holds an achievement with another rule_type.
ThresholdRule ==
    [][calls' = calls + 1 =>
          /\ \A u \in Actors \cup {NoId}, k \in 1..Len(achievements) :
                (has_row(user_achievements', u, achievements[k].id)
                   /\ ~has_row(user_achievements, u, achievements[k].id))
                => Meets(u, k)'
          /\ \A n \in 1..Len(user_achievements'), k \in 1..Len(achievements) :
                achievements[k].id = user_achievements'[n][2]
                   => achievements[k].rule_type \in RuleTypes]_vars

\* User 2 was evaluated while user 1 had a story, a like on it and the two
\* achievements for them: user 2, with nothing of their own, holds none,
\* and nobody holds achievement 3, whose rule_type is unknown and whose
\* rule_value is 0.
OnlyOwnStatsCount ==
    /\ last.op = "eval" /\ last.uid = 2 /\ last.newly = <<>>
    /\ has_row(user_achievements, 1, 1) /\ has_row(user_achievements, 1, 2)
    /\ achievements[3].active /\ achievements[3].rule_value = 0
    /\ \A u \in Actors, k \in 1..Len(achievements) :
          has_row(user_achievements, u, achievements[k].id) => u = 1 /\ k \in {1, 2}

\* The input of the last create_story or add_comment breaks a field rule:
\* the caption, or the name or text of the comment, is blank once stripped
\* or is too long.
InputInvalid ==
    \/ /\ last.op = "create"
       /\ \/ Strip(last.args.caption[1]) = <<>>
          \/ Len(Strip(last.args.caption[1])) > MAX_CAPTION
    \/ /\ last.op = "comment"
       /\ \/ Strip(last.author_name) = <<>>
          \/ Len(Strip(last.author_name)) > MAX_AUTHOR_NAME
          \/ Strip(last.content) = <<>>
          \/ Len(Strip(last.content)) > MAX_CONTENT

\* C17: no partial writes on validation failure.  A create_story or
\* add_comment whose input fails validation returns no entity, a non-empty
\* field-error map and no badges, and changes nothing: no story or comment
\* row, no counter, no ledger row, no activity date.
NoPartialWrites ==
    [][(calls' = calls + 1 /\ InputInvalid') =>
          /\ ~last'.ok /\ last'.errors # {} /\ last'.newly = <<>>
          /\ last'.op = "create" => last'.sid = NoId
          /\ db' = db]_vars

\* A comment with a blank name by user 1 on user 1's story was refused:
\* the story still counts no comment and user 1 has no comment award.
InvalidCommentRefused ==
    /\ last.op = "comment" /\ last.uid = 1 /\ last.errors = {"author_name"}
    /\ last.sid \in DOMAIN stories /\ stories[last.sid].author_id = 1
    /\ stories[last.sid].comments_count = 0 /\ comments = <<>>
    /\ achievements[4].active /\ ~has_row(user_achievements, 1, 4)

\* C18: media failure leaves no partial state.  When a media file of a
\* create_story or update_story call fails validation or saving, the call
\* is rejected, no story row is created or changed, and no file that the
\* call saved is left in the upload folder.
MediaFailureLeavesNothing ==
    (last.op \in {"create", "update"} /\ "media" \in last.errors) =>
       /\ ~last.ok
       /\ last.op = "create" => last.sid = NoId
       /\ last.op = "update" => stories[last.sid] = last.before[1]
       /\ \A k \in DOMAIN stories :
             \A n \in 1..Len(stories[k].media_paths) :
                stories[k].media_paths[n].uuid[1] # calls
       /\ \A n \in 1..Len(uploads) : uploads[n].uuid[1] # calls

\* A request of add_comment or delete_comment has started and not ended.
CommentInProgress ==
    \E p \in Procs : proc[p].op \in {"comment", "delcomment"}
                        /\ proc[p].pc \notin {"idle", "done"}

\* C20: denormalized comment count.  Whenever no comment operation is in
\* progress, the comments_count of every story in the table equals the
\* number of comment rows that reference the story, however add_comment,
\* delete_comment and the story operations were interleaved.
CommentCountMatches ==
    ~CommentInProgress =>
       \A k \in DOMAIN stories :
          stories[k].comments_count
             = Cardinality({c \in DOMAIN comments : comments[c].story_id = k})

(* ====================================================================== *)
(* Story forms: create_story and update_story with privacy, groups, tags  *)
(* ====================================================================== *)
\* The texts the form runs submit.
Family == << "f", "a", "m", "i", "l", "y" >>

PrivacyInputs == {"Public", "Specific Groups"}

GroupInputs == {<<>>, << Family >>}

\* Tag lists: none, a plain tag, a tag with one or two leading "#", a tag
\* with a "#" inside, and a tag that ends in a line end.
TagInputs ==
    {<<>>,
     << << "a", "b", "c" >> >>,
     << << "#", "a", "b", "c" >> >>,
     << << "#", "#", "a", "b", "c" >> >>,
     << << "#", "a", "#", "b" >> >>,
     << << "a", "b", "c", "\n" >> >>}

\* StoryService.create_story without media, from the cleaning of its
\* arguments to its return.
CreateStoryForm(u, privacy, tags, groups) ==
    /\ CanCall
    /\ next_story_id <= MaxStories
    /\ LET story == StoryPost(u, Strip(ValidCaption), Strip(ValidDescription),
                              "Life Lessons", privacy,
                              IF tags # <<>> THEN CleanTags(tags) ELSE <<>>,
                              groups, None, now)
           errors == validate(story)
           given == UpdateArgs(Some(ValidCaption), Some(ValidDescription),
                               Some("Life Lessons"), Some(privacy), Some(tags),
                               Some(groups))
           tbl == InsertRow(stories, next_story_id, story)
           ev == evaluate_and_award(user_achievements, user_badges, achievements,
                                    tbl, comments, u)
       IN  IF errors # {}
           THEN /\ last' = Result("create", NoId, given, None, FALSE, errors, "", <<>>)
                /\ UNCHANGED << stories, next_story_id, user_achievements,
                                user_badges, user_activity_dates >>
           ELSE /\ stories' = tbl
                /\ next_story_id' = next_story_id + 1
                /\ user_activity_dates' =
                      IF u = NoId THEN user_activity_dates
                      ELSE user_activity_dates \cup {<< u, now \div TicksPerDay >>}
                /\ user_achievements' = ev.ua
                /\ user_badges' = ev.ub
                /\ last' = Result("create", next_story_id, given, None, TRUE, {}, "",
                                  ev.newly)
    /\ calls' = calls + 1
    /\ UNCHANGED << comments, next_comment_id, achievements, uploads, now, proc, hist >>

\* The update_story calls of the form runs: privacy, groups and tags, alone
\* and together.
FormUpdates ==
    {UpdateArgs(None, None, None, Some(pr), None, None) : pr \in PrivacyInputs}
    \cup {UpdateArgs(None, None, None, None, None, Some(g)) : g \in GroupInputs}
    \cup {UpdateArgs(None, None, None, Some("Specific Groups"), None, Some(g)) :
             g \in GroupInputs}
    \cup {UpdateArgs(None, None, None, None, Some(tg), None) : tg \in TagInputs}

NextForm ==
    \/ \E u \in Users, pr \in PrivacyInputs, tg \in TagInputs, g \in GroupInputs :
          CreateStoryForm(u, pr, tg, g)
    \/ \E sid \in StoryIds, a \in FormUpdates : UpdateStoryCall(sid, a)

InitForm == InitWith(CatalogA)

SpecForm == InitForm /\ [][NextForm]_vars

\* A create_story call, or an update_story call that found a live story:
\* the calls that go on to validate().
Validated(r) ==
    \/ r.op = "create"
    \/ r.op = "update" /\ ~IsNone(r.before) /\ ~r.before[1].is_deleted

\* The privacy and the groups such a call asks to store: its arguments where
\* given, the values of the story it found otherwise.
AskedPrivacy(r) ==
    IF ~IsNone(r.args.privacy) THEN r.args.privacy[1] ELSE r.before[1].privacy

AskedGroups(r) ==
    IF ~IsNone(r.args.allowed_groups) THEN r.args.allowed_groups[1]
    ELSE r.before[1].allowed_groups

\* C21: groups are required for "Specific Groups".  After every create_story
\* and update_story call, every stored story whose privacy is "Specific
\* Groups" has a non-empty allowed_groups; a call that asks to store that
\* privacy with no groups is refused with an allowed_groups error and leaves
\* the stories as they were; with the groups ["family"] the same call gets
\* no allowed_groups error and, having no other error, is stored as asked.
GroupsRequired ==
    [][ /\ \A k \in DOMAIN stories' :
              stories'[k].privacy = "Specific Groups"
                 => stories'[k].allowed_groups # <<>>
        /\ (calls' = calls + 1 /\ Validated(last')
               /\ AskedPrivacy(last') = "Specific Groups") =>
              /\ AskedGroups(last') = <<>> =>
                    /\ ~last'.ok
                    /\ "allowed_groups" \in last'.errors
                    /\ stories' = stories
              /\ AskedGroups(last') = << Family >> =>
                    /\ "allowed_groups" \notin last'.errors
                    /\ last'.errors = {} =>
                          /\ last'.ok
                          /\ stories'[last'.sid].privacy = "Specific Groups"
                          /\ stories'[last'.sid].allowed_groups = << Family >>
      ]_vars

\* An update that would empty the groups of a "Specific Groups" story was
\* refused, and the story still has the groups it was created with.
EmptyGroupsRefused ==
    /\ last.op = "update" /\ ~last.ok /\ "allowed_groups" \in last.errors
    /\ last.args.allowed_groups = Some(<<>>)
    /\ last.sid \in DOMAIN stories
    /\ stories[last.sid].privacy = "Specific Groups"
    /\ stories[last.sid].allowed_groups = << Family >>

(* ====================================================================== *)
(* StoryPost.validate on story values                                     *)
(* ====================================================================== *)
\* The field values the validation runs draw a story from: captions and
\* descriptions at both sides of each limit, blank ones included; tag
\* lists with a plain tag, a "#" in front, a "#" inside, a line end at the
\* end, an empty tag, and one tag too many; categories and privacies inside
\* and outside the configured lists; no group and one group.
TagValues ==
    {<<>>,
     << << "a", "b", "c" >> >>,
     << << "#", "a", "_", "1" >> >>,
     << << "a", "#", "b" >> >>,
     << << "a", "b", "c", "\n" >> >>,
     << <<>> >>,
     Repeat(<< "a" >>, MAX_TAGS),
     Repeat(<< "a" >>, MAX_TAGS + 1)}

StoryValues ==
    {StoryPost(NoId, c, d, cat, pr, tg, g, None, 0) :
        c \in {<<>>, << " " >>, ValidCaption, Repeat("a", MAX_CAPTION),
               Repeat("a", MAX_CAPTION + 1), Repeat(" ", MAX_CAPTION + 1)},
        d \in {<<>>, Repeat(" ", MIN_DESCRIPTION), Repeat("d", MIN_DESCRIPTION - 1),
               ValidDescription, << " " >> \o Repeat("d", MIN_DESCRIPTION - 1)},
        cat \in {"Life Lessons", "bogus", ""},
        pr \in {"Public", "Specific Groups", "bogus", ""},
        tg \in TagValues, g \in GroupInputs}

\* The state in which the stories table holds the rows tbl, nothing else
\* has been written, no request is running and rec is the last result.
InitFrom(tbl, rec) ==
    /\ stories = tbl
    /\ next_story_id = Len(tbl) + 1
    /\ comments = <<>>
    /\ next_comment_id = 1
    /\ achievements = CatalogA
    /\ uploads = <<>>
    /\ user_achievements = <<>>
    /\ user_badges = <<>>
    /\ user_activity_dates = {}
    /\ now = 0
    /\ proc = [p \in Procs |-> Idle]
    /\ calls = 0
    /\ hist = [reported |-> [k \in Users \X Badges |-> 0],
               satisfied |-> {},
               ignored |-> {},
               quiet |-> [p \in Procs |-> NoId],
               likeCalls |-> [k \in StoryIds |-> 0],
               likeDone |-> [k \in StoryIds |-> 0],
               shareCalls |-> [k \in StoryIds |-> 0],
               shareDone |-> [k \in StoryIds |-> 0],
               unliked |-> [k \in StoryIds |-> FALSE],
               removed |-> {}]
    /\ last = rec

\* No call has returned yet.
NoResult ==
    [op |-> "none", sid |-> NoId, at |-> 0, args |-> NoArgs, before |-> None,
     ok |-> FALSE, errors |-> {}, msg |-> "", newly |-> <<>>]

\* A StoryPost has been constructed; nothing is stored.
InitValidate == \E s \in StoryValues : InitFrom(<<>>, [NoResult EXCEPT !.before = Some(s)])

\* story.validate(): the story is left as it is, the error map is returned.
ValidateCall ==
    /\ last.op = "none"
    /\ last' = [last EXCEPT !.op = "validate",
                            !.errors = validate(last.before[1]),
                            !.ok = validate(last.before[1]) = {}]
    /\ UNCHANGED << db, uploads, now, proc, calls, hist >>

SpecValidate == InitValidate /\ [][ValidateCall]_vars

\* A text with a character that is not whitespace.
NonBlank(text) == \E k \in 1..Len(text) : text[k] \notin {" ", "\n"}

\* A tag that, after the "#" in front of it, is one or more letters, digits
\* and underscores and nothing else.
WordAfterHash(tag) ==
    \E n \in 0..Len(tag) :
       /\ n < Len(tag)
       /\ \A k \in 1..n : tag[k] = "#"
       /\ \A k \in (n + 1)..Len(tag) : tag[k] \in {"a", "b", "c", "1", "_"}

\* The field rules of a story.
RulesMet(s) ==
    /\ NonBlank(s.caption) /\ Len(s.caption) <= 120
    /\ NonBlank(s.description) /\ Len(s.description) >= 20
    /\ Len(s.tags) <= 10 /\ \A k \in 1..Len(s.tags) : WordAfterHash(s.tags[k])
    /\ s.category \in VALID_CATEGORIES
    /\ s.privacy \in VALID_PRIVACY_OPTIONS
    /\ s.privacy = "Specific Groups" => s.allowed_groups # <<>>

\* C22: validation is complete and per field.  For every story value,
\* validate() reports a caption error when the caption is longer than 120
\* characters and a description error when the description is shorter than
\* 20 characters, whatever the other fields hold, and it returns the empty
\* map exactly when the story meets every field rule.
ValidateExact ==
    last.op = "validate" =>
       LET s == last.before[1]
       IN  /\ Len(s.caption) > 120 => "caption" \in last.errors
           /\ Len(s.description) < 20 => "description" \in last.errors
           /\ last.errors = {} <=> RulesMet(s)

\* The columns update_story is not meant to touch.
KeptColumns ==
    {"likes_count", "comments_count", "shares_count", "is_deleted", "deleted_at",
     "created_at", "author_id"}

\* The step in which process p runs the write of its update_story.
UpdateWrites(p) ==
    proc[p].op = "update" /\ proc[p].pc = "write" /\ proc'[p].pc = "done"

\* C23: update_story keeps to its own columns.  The write of an
\* update_story leaves likes_count, comments_count, shares_count,
\* is_deleted, deleted_at, created_at and author_id of every story as the
\* other operations left them, also when a like, share, comment or delete
\* of the same story committed after update_story read the story; rows are
\* neither added nor removed and no other story changes.
UpdateKeepsOtherColumns ==
    [][ \A p \in Procs :
           UpdateWrites(p) =>
              /\ DOMAIN stories' = DOMAIN stories
              /\ \A k \in DOMAIN stories :
                    /\ k # proc[p].sid => stories'[k] = stories[k]
                    /\ \A f \in KeptColumns : stories'[k][f] = stories[k][f]
      ]_vars

(* ====================================================================== *)
(* The recovery window under overlapping delete, restore and purge        *)
(* ====================================================================== *)
\* The state after one create_story has returned: a story created at time
\* 0 by a request without a user, so that the ledger is empty.
InitSweep ==
    InitFrom(<< StoryPost(NoId, Strip(ValidCaption), Strip(ValidDescription),
                          "Life Lessons", "Public", <<>>, <<>>, None, 0) >>,
             NoResult)

\* delete_story, restore_story and purge_expired requests, one SQL
\* statement per step.
SweepNext(p) ==
    \/ \E op \in {"delete", "restore"}, sid \in StoryIds : FindStory(p, op, sid)
    \/ DeleteStory(p)
    \/ RestoreStory(p)
    \/ PurgeSelect(p)
    \/ PurgeDelete(p)
    \/ Return(p)

NextSweep == (\E p \in Procs : SweepNext(p)) \/ TickWindow

SpecSweep == InitSweep /\ [][NextSweep]_vars

\* The step in which process p runs the DELETE statements of purge_expired,
\* and the step in which it runs the UPDATE of restore_story.
PurgeDeletes(p) ==
    proc[p].op = "purge" /\ proc[p].pc = "purge" /\ proc'[p].pc = "done"

RestoreWrites(p) ==
    proc[p].op = "restore" /\ proc[p].pc = "write" /\ proc'[p].pc = "done"

\* C24: the window holds at the write.  However restore_story,
\* delete_story and purge_expired overlap, every story that purge_expired
\* removes is, at that moment, soft-deleted with now - deleted_at >= 7
\* days, and every story that restore_story makes live is, at that moment,
\* soft-deleted with now - deleted_at < 7 days.
WindowHoldsAtWrite ==
    [][ \A p \in Procs :
           /\ PurgeDeletes(p) =>
                 \A k \in DOMAIN stories \ DOMAIN stories' :
                    stories[k].is_deleted /\ ~InWindow(stories[k], now)
           /\ RestoreWrites(p) =>
                 \A k \in DOMAIN stories :
                    (stories[k].is_deleted /\ ~stories'[k].is_deleted)
                       => InWindow(stories[k], now)
      ]_vars

\* The soft-deleted stories inside and past the recovery window at time t.
Recoverable(tbl, t) == {k \in DOMAIN tbl : tbl[k].is_deleted /\ InWindow(tbl[k], t)}

Expired(tbl, t) == {k \in DOMAIN tbl : tbl[k].is_deleted /\ ~InWindow(tbl[k], t)}

\* C25: the 7-day split.  In every state find_deleted returns exactly the
\* soft-deleted stories with now - deleted_at < 7 days; a purge_expired
\* call removes exactly the soft-deleted stories with now - deleted_at >= 7
\* days, returns their number and leaves every other row as it was; and no
\* other call removes a row.
SevenDaySplit ==
    [][ /\ find_deleted(stories', now') = Recoverable(stories', now')
        /\ (calls' = calls + 1 /\ last'.op = "purge") =>
              /\ DOMAIN stories \ DOMAIN stories' = Expired(stories, now)
              /\ last'.sid = Cardinality(Expired(stories, now))
              /\ \A k \in DOMAIN stories' : stories'[k] = stories[k]
        /\ ~(calls' = calls + 1 /\ last'.op = "purge") =>
              DOMAIN stories \subseteq DOMAIN stories'
      ]_vars

\* A purge on the seventh day or later removed the one expired story and
\* reported 1.
ExpiredStoryPurged ==
    /\ last.op = "purge" /\ last.sid = 1
    /\ now >= RESTORE_DAYS * TicksPerDay
    /\ next_story_id = 2 /\ stories = <<>>

\* C26: deleting again does not move the window.  A delete_story call on a
\* story that is already soft-deleted leaves its deleted_at as it was, so
\* the 7 days run from the first soft-delete.
DeleteKeepsFirstTimestamp ==
    (last.op = "delete" /\ ~IsNone(last.before) /\ last.before[1].is_deleted) =>
       /\ last.sid \in DOMAIN stories
       /\ stories[last.sid].is_deleted
       /\ stories[last.sid].deleted_at = last.before[1].deleted_at

\* C27: the store's restore needs a deleted record.  A call of
\* StoryRepository.restore on an existing story that is not soft-deleted
\* reports failure and changes nothing; on a soft-deleted story it clears
\* is_deleted and deleted_at and reports success.
RestoreNeedsDeleted ==
    [][ \A p \in Procs :
           (RestoreWrites(p) /\ proc[p].sid \in DOMAIN stories) =>
              IF stories[proc[p].sid].is_deleted
              THEN /\ proc'[p].ok
                   /\ ~stories'[proc[p].sid].is_deleted
                   /\ IsNone(stories'[proc[p].sid].deleted_at)
              ELSE /\ ~proc'[p].ok
                   /\ stories' = stories
      ]_vars

\* The step in which process p inserts the user_achievements row (u, a),
\* and the step in which it inserts the user_badges row (u, b).
InsertsAchievement(p, u, a) ==
    /\ proc[p].pc = "award" /\ proc[p].uid = u /\ proc[p].active[proc[p].i].id = a
    /\ user_achievements' = Append(user_achievements, << u, a >>)

InsertsBadge(p, u, b) ==
    /\ proc[p].pc = "badge" /\ proc[p].uid = u
    /\ proc[p].active[proc[p].i].badge_ids[proc[p].j] = b
    /\ user_badges' = Append(user_badges, << u, b >>)

\* C28: every badge is backed by an achievement.  In every state each
\* user_badges row (u, B) has a user_achievements row (u, A) for an
\* achievement A that links B.  A badge row is inserted only by a step of
\* an evaluate_and_award call that is in the badge loop of such an
\* achievement A, whose row (u, A) is in the ledger, and a call enters the
\* badge loop of A only by the step in which it inserted (u, A) itself.
BadgeBackedByAchievement ==
    [][ /\ \A k \in 1..Len(user_badges') :
              \E a \in 1..Len(achievements') :
                 /\ has_row(user_achievements', user_badges'[k][1], achievements'[a].id)
                 /\ user_badges'[k][2] \in SeqRange(achievements'[a].badge_ids)
        /\ user_badges' # user_badges =>
              \E p \in Procs, u \in Users, b \in Badges :
                 /\ InsertsBadge(p, u, b)
                 /\ has_row(user_achievements, u, proc[p].active[proc[p].i].id)
                 /\ b \in SeqRange(AchievementById(proc[p].active[proc[p].i].id).badge_ids)
        /\ \A p \in Procs :
              (proc'[p].pc = "badge" /\ proc[p].pc # "badge") =>
                 InsertsAchievement(p, proc'[p].uid, proc'[p].active[proc'[p].i].id)
      ]_vars

\* Two evaluations for the same user overlapped: one insert of an
\* achievement was ignored, and the user holds that achievement and each of
\* its badges, inserted by the other call.
BadgesFromOneCall ==
    /\ \A p \in Procs : proc[p].pc \in {"idle", "done"}
    /\ \E k \in hist.ignored :
          /\ has_row(user_achievements, k[1], k[2])
          /\ AchievementById(k[2]).badge_ids # <<>>
          /\ \A b \in SeqRange(AchievementById(k[2]).badge_ids) :
                has_row(user_badges, k[1], b)
          /\ \E p \in Procs : proc[p].pc = "done" /\ proc[p].uid = k[1]
                                 /\ ~proc[p].inserted

(* ====================================================================== *)
(* Streak achievements                                                    *)
(* ====================================================================== *)
\* A catalog with achievements on the streak: one day, no day at all, and,
\* next to them, one on the stories created.
CatalogD ==
    << Achievement(1, "days_active_streak", 1, TRUE, <<1>>),
       Achievement(2, "stories_created_total", 1, TRUE, <<2>>),
       Achievement(3, "days_active_streak", 0, TRUE, <<2>>) >>

InitStreak == InitWith(CatalogD)

\* Stories, comments, likes and evaluations of two users and of a request
\* without a user, one call at a time, over several days.
NextStreak ==
    \/ \E u \in Actors \cup {NoId} : CreateStoryCall(u, ValidCaption, None)
    \/ \E sid \in StoryIds, u \in Actors, x \in CommentInputs :
          AddCommentCall(sid, u, x[1], x[2])
    \/ \E sid \in StoryIds : LikeStoryCall(sid)
    \/ \E u \in Actors : EvaluateCall(u)
    \/ Tick

SpecStreak == InitStreak /\ [][NextStreak]_vars

\* C29: the streak is always 0.  The streak statistic of every user is 0 in
\* every state, and no user holds an active achievement whose rule is
\* days_active_streak >= N with N >= 1, whatever stories, comments and
\* activity dates the user has.
StreakNeverAwarded ==
    \A u \in Actors :
       /\ get_user_stats(stories, comments, u).days_active_streak = 0
       /\ \A k \in 1..Len(achievements) :
             (achievements[k].rule_type = "days_active_streak"
                 /\ achievements[k].rule_value >= 1)
                => ~has_row(user_achievements, u, achievements[k].id)

\* A user was active on two days in a row, holds the achievement on the
\* stories created and the one on a streak of no day, and not the one on a
\* streak of one day.
ActiveTwoDaysNoStreak ==
    \E u \in Actors :
       /\ {<< u, 0 >>, << u, 1 >>} \subseteq user_activity_dates
       /\ has_row(user_achievements, u, 2)
       /\ has_row(user_achievements, u, 3)
       /\ ~has_row(user_achievements, u, 1)

\* A tag without one "#" in front of it.
StripOneHash(tag) == IF tag # <<>> /\ tag[1] = "#" THEN Tail(tag) ELSE tag

HasHash(tag) == \E k \in 1..Len(tag) : tag[k] = "#"

\* C30: tag normalization takes one "#".  For a create_story or
\* update_story call that gives tags and goes on to validate(): when a tag
\* still contains "#" after one leading "#" is removed, the call is
\* refused with a tags error; and when the call is accepted, the tags
\* stored are the tags given, each without one leading "#".
OneHashStripped ==
    (Validated(last) /\ ~IsNone(last.args.tags)) =>
       LET given == last.args.tags[1]
       IN  /\ (\E k \in 1..Len(given) : HasHash(StripOneHash(given[k]))) =>
                 ~last.ok /\ "tags" \in last.errors
           /\ last.ok =>
                 stories[last.sid].tags = [k \in 1..Len(given) |-> StripOneHash(given[k])]

====
